---- MODULE Spec2Model ----
(***************************************************************************)
(* Model of the message-send flow of the AI Agent Platform:                *)
(*   - the LLM client (app/services/llm.py): request, parse, retry loop;   *)
(*   - the message orchestration service (app/services/message.py) over    *)
(*     the repositories and the request-scoped database session;           *)
(*   - the send-message endpoint and the exception handlers (app/main.py,  *)
(*     app/routers/messages.py);                                           *)
(*   - the history query and the cascading deletes of agents and           *)
(*     conversations (app/repositories, app/models).                       *)
(*                                                                         *)
(* Python values are modelled as follows.  An optional value (None or a    *)
(* value) is a sequence of length 0 or 1.  A value that may be a str or a  *)
(* tuple is a record with the single field str or the single field tuple.  *)
(***************************************************************************)
EXTENDS Integers, Sequences, FiniteSets, TLC

\* ------------------------------------------------------------------------
\* Bounds of the model
\* ------------------------------------------------------------------------
\* largest max_retries given to the LLMService constructor in the chat runs
MaxRetriesBound == 2
\* number of send-message requests issued in one behaviour
NumReq == 1
\* number of send-message requests that run concurrently
NumConc == 2
\* largest number of Message rows in the create/delete behaviours
MaxMessages == 2
\* last tick of the database clock in the create/delete behaviours
MaxClock == 1
\* create_conversation is called while fewer conversations than this exist
MaxConversations == 3
\* agent rows the connection holds before no further agent is created
MaxAgents == 3
\* the longest history that format_messages_for_llm is applied to
MaxHistory == 2

\* ------------------------------------------------------------------------
\* Program constants
\* ------------------------------------------------------------------------
\* LLMService.__init__: max_retries: int = 2
DefaultMaxRetries == 2
\* _make_request: if response.status_code != 200
HTTP_OK == 200
\* chat: 500 <= e.status_code < 600
ServerErrorLow == 500
ServerErrorHigh == 600
\* Settings.llm_model
llm_model == "qwen-turbo"
\* send_message: fallback system prompt
DefaultSystemPrompt == "You are a helpful assistant."

None == <<>>
Some(x) == <<x>>
IsNone(o) == o = <<>>

\* dict.get(key, default) on an optional field
Get(o, default) == IF o = <<>> THEN default ELSE o[1]

PyStr(s) == [str |-> s]
PyTuple(a, b) == [tuple |-> <<a, b>>]
IsStr(v) == DOMAIN v = {"str"}

\* ------------------------------------------------------------------------
\* Exceptions
\* ------------------------------------------------------------------------
LLMTimeoutError == [type |-> "LLMTimeoutError", status_code |-> None]
LLMAPIError(status_code) == [type |-> "LLMAPIError", status_code |-> status_code]
\* any exception that is neither LLMTimeoutError nor LLMAPIError
OtherException == [type |-> "Exception", status_code |-> None]

Return(v) == [tag |-> "return", value |-> v]
Raise(e) == [tag |-> "raise", exc |-> e]

\* ------------------------------------------------------------------------
\* The provider: what one POST {base_url}/chat/completions can produce
\* ------------------------------------------------------------------------
StatusCodes == {200, 201, 404, 499, 500, 503, 599, 600}

Usages ==
  { [prompt_tokens |-> Some(2), completion_tokens |-> Some(3), total_tokens |-> Some(5)],
    [prompt_tokens |-> Some(2), completion_tokens |-> Some(3), total_tokens |-> Some(7)],
    [prompt_tokens |-> Some(4), completion_tokens |-> None, total_tokens |-> None] }

\* choices[0]: a JSON object whose message.content is a string or null/missing,
\* or a JSON value that is not an object
Choices ==
  { [object |-> TRUE, content |-> Some("Hi there")],
    [object |-> TRUE, content |-> Some("")],
    [object |-> TRUE, content |-> None],
    [object |-> FALSE, content |-> None] }

\* JSON bodies of a 200 response
Bodies ==
  { [json |-> TRUE, choices |-> <<c>>, usage |-> u] : c \in Choices, u \in Usages }
  \cup { [json |-> TRUE, choices |-> <<>>, usage |-> u] : u \in Usages }
  \cup { [json |-> FALSE, choices |-> <<>>,
          usage |-> [prompt_tokens |-> None, completion_tokens |-> None, total_tokens |-> None]] }

ErrorBody == [json |-> FALSE, choices |-> <<>>,
              usage |-> [prompt_tokens |-> None, completion_tokens |-> None, total_tokens |-> None]]

\* outcomes of client.post: a response, httpx.TimeoutException, another
\* httpx.RequestError, or any other exception
Outcomes ==
  { [kind |-> "response", status |-> HTTP_OK, body |-> b] : b \in Bodies }
  \cup { [kind |-> "response", status |-> s, body |-> ErrorBody] : s \in StatusCodes \ {HTTP_OK} }
  \cup { [kind |-> "response", status |-> 201, body |-> b] :
           b \in {c \in Bodies : c.json /\ c.choices = <<[object |-> TRUE, content |-> Some("Hi there")]>>
                                 /\ c.usage.total_tokens = Some(5)} }
  \cup { [kind |-> k, status |-> 0, body |-> ErrorBody] : k \in {"timeout", "transport", "unexpected"} }

\* the provider behaviours drawn in the send-message requests
RequestOutcomes ==
  { o \in Outcomes :
      \/ o.kind \in {"timeout", "unexpected"}
      \/ o.kind = "response" /\ o.status \in {404, 503}
      \/ /\ o.kind = "response" /\ o.status = HTTP_OK /\ o.body.json
         /\ \/ o.body.choices = <<>> /\ o.body.usage.total_tokens = Some(5)
            \/ /\ o.body.choices = <<[object |-> TRUE, content |-> Some("Hi there")]>>
               /\ o.body.usage.total_tokens = Some(7)
            \/ /\ o.body.choices = <<[object |-> TRUE, content |-> Some("")]>>
               /\ o.body.usage.total_tokens = None }

\* ------------------------------------------------------------------------
\* app/services/llm.py
\* ------------------------------------------------------------------------
\* format_messages_for_llm that puts a system entry first whatever the prompt
format_messages_for_llm_always_system(messages, system_prompt) ==
  <<[role |-> "system", content |-> system_prompt]>>
  \o [i \in 1..Len(messages) |-> [role |-> Get(messages[i].role, "user"),
                                    content |-> Get(messages[i].content, "")]]

\* format_messages_for_llm(messages, system_prompt).  An entry of messages is
\* a dict that may lack the key role or the key content; the entries of the
\* result are new dicts with both keys.
format_messages_for_llm(messages, system_prompt) ==
  (IF system_prompt # "" THEN <<[role |-> "system", content |-> system_prompt]>> ELSE <<>>)
  \o [i \in 1..Len(messages) |-> [role |-> Get(messages[i].role, "user"),
                                    content |-> Get(messages[i].content, "")]]

\* parse_llm_response(response_data)
parse_llm_response(response_data) ==
  IF response_data.choices = <<>>
    THEN Raise(LLMAPIError(None))
  ELSE IF ~response_data.choices[1].object
    THEN Raise(OtherException)          \* AttributeError: not caught by the except clause
  ELSE IF IsNone(response_data.choices[1].content)
    THEN Raise(LLMAPIError(None))
  ELSE Return(<<response_data.choices[1].content[1],
                [prompt_tokens |-> Get(response_data.usage.prompt_tokens, 0),
                 completion_tokens |-> Get(response_data.usage.completion_tokens, 0),
                 total_tokens |-> Get(response_data.usage.total_tokens, 0)]>>)

\* LLMService._make_request, given what client.post produces
make_request(o) ==
  IF o.kind = "timeout" THEN Raise(LLMTimeoutError)
  ELSE IF o.kind = "transport" THEN Raise(LLMAPIError(None))
  ELSE IF o.kind = "unexpected" THEN Raise(OtherException)
  ELSE IF o.status # HTTP_OK THEN Raise(LLMAPIError(Some(o.status)))
  ELSE IF ~o.body.json THEN Raise(OtherException)   \* response.json() raises ValueError
  ELSE Return(o.body)

\* chat, with a retry condition that also admits 4xx statuses
IsServerError_from400(e) ==
  /\ ~IsNone(e.status_code)
  /\ e.status_code[1] # 0
  /\ 400 <= e.status_code[1]
  /\ e.status_code[1] < ServerErrorHigh

\* chat: `e.status_code and 500 <= e.status_code < 600`
IsServerError(e) ==
  /\ ~IsNone(e.status_code)
  /\ e.status_code[1] # 0
  /\ ServerErrorLow <= e.status_code[1]
  /\ e.status_code[1] < ServerErrorHigh

\* chat: the try block of one loop iteration
chat_try(o) ==
  LET response_data == make_request(o)
  IN IF response_data.tag = "raise" THEN response_data
     ELSE parse_llm_response(response_data.value)

Continue(attempt, e) == [tag |-> "continue", attempt |-> attempt, last_error |-> Some(e)]

\* chat_iteration that gives up on a 5xx error instead of retrying it
chat_iteration_no_retry_5xx(attempt, max_retries, o) ==
  LET r == chat_try(o)
  IN IF r.tag = "return" THEN r
     ELSE IF r.exc.type = "LLMTimeoutError" THEN r
     ELSE IF r.exc.type = "LLMAPIError" THEN r
     ELSE IF attempt < max_retries
       THEN Continue(attempt + 1, r.exc)
       ELSE Raise(LLMAPIError(None))

\* chat_iteration that handles a timeout in the generic except clause
chat_iteration_retry_timeout(attempt, max_retries, o) ==
  LET r == chat_try(o)
  IN IF r.tag = "return" THEN r
     ELSE IF r.exc.type = "LLMAPIError"
       THEN IF IsServerError(r.exc) /\ attempt < max_retries
              THEN Continue(attempt + 1, r.exc)
              ELSE r
     ELSE IF attempt < max_retries
       THEN Continue(attempt + 1, r.exc)
       ELSE Raise(LLMAPIError(None))

\* chat_iteration that retries an unexpected error without using up an attempt
chat_iteration_free_retry(attempt, max_retries, o) ==
  LET r == chat_try(o)
  IN IF r.tag = "return" THEN r
     ELSE IF r.exc.type = "LLMTimeoutError" THEN r
     ELSE IF r.exc.type = "LLMAPIError"
       THEN IF IsServerError(r.exc) /\ attempt < max_retries
              THEN Continue(attempt + 1, r.exc)
              ELSE r
     ELSE Continue(attempt, r.exc)

\* chat_iteration that re-raises the unexpected error itself on exhaustion
chat_iteration_reraise(attempt, max_retries, o) ==
  LET r == chat_try(o)
  IN IF r.tag = "return" THEN r
     ELSE IF r.exc.type = "LLMTimeoutError" THEN r
     ELSE IF r.exc.type = "LLMAPIError"
       THEN IF IsServerError(r.exc) /\ attempt < max_retries
              THEN Continue(attempt + 1, r.exc)
              ELSE r
     ELSE IF attempt < max_retries
       THEN Continue(attempt + 1, r.exc)
       ELSE r

\* chat: one iteration of `for attempt in range(self.max_retries + 1)`.
\* The result is to return, to raise, or to continue with the next value of
\* attempt and the error kept in last_error.
chat_iteration(attempt, max_retries, o) ==
  LET r == chat_try(o)
  IN IF r.tag = "return" THEN r
     ELSE IF r.exc.type = "LLMTimeoutError" THEN r
     ELSE IF r.exc.type = "LLMAPIError"
       THEN IF IsServerError(r.exc) /\ attempt < max_retries
              THEN Continue(attempt + 1, r.exc)
              ELSE r
     ELSE IF attempt < max_retries
       THEN Continue(attempt + 1, r.exc)
       ELSE Raise(LLMAPIError(None))

\* chat: the statements after the loop
chat_after_loop(last_error) ==
  IF ~IsNone(last_error) THEN Raise(last_error[1]) ELSE Raise(LLMAPIError(None))

\* chat: one iteration followed, when the loop is exhausted, by the statements
\* after the loop; a result with tag "continue" means the loop goes on
chat_step(attempt, max_retries, o) ==
  LET r == chat_iteration(attempt, max_retries, o)
  IN IF r.tag = "continue" /\ ~(r.attempt < max_retries + 1)
       THEN chat_after_loop(r.last_error)
       ELSE r

\* ------------------------------------------------------------------------
\* app/repositories, app/services/message.py
\* ------------------------------------------------------------------------
ConversationNotFoundError == [type |-> "ConversationNotFoundError", status_code |-> None]
\* asyncio.CancelledError: the caller went away while the operation was suspended
CancelledError == [type |-> "CancelledError", status_code |-> None]
\* sqlalchemy.exc.StatementError and subclasses raised by session.flush()
DBAPIError == [type |-> "DBAPIError", status_code |-> None]
\* sqlalchemy.exc.InvalidRequestError of session.refresh: the row is gone
InvalidRequestError == [type |-> "InvalidRequestError", status_code |-> None]
AgentNotFoundError == [type |-> "AgentNotFoundError", status_code |-> None]

SeqMax(S) == IF S = {} THEN 0 ELSE CHOOSE x \in S : \A y \in S : y <= x

\* ConversationRepository.get_by_id / AgentRepository.get_by_id: scalar_one_or_none()
get_by_id(rows, id) ==
  IF \E row \in rows : row.id = id
    THEN Some(CHOOSE row \in rows : row.id = id)
    ELSE None

\* primary key given to a new row: autoincrement over the rows that exist
next_id(rows) == SeqMax({rows[i].id : i \in 1..Len(rows)}) + 1

\* MessageRepository.create: add and flush.  all_rows are the rows the
\* connection holds; the key of the new row is one more than their largest.  The INSERT binds content to a Text column, which
\* takes a str only; any other value makes flush raise.  created_at is the
\* server default func.now(), the database clock at the INSERT.
message_create(all_rows, conversation_id, role, content, now) ==
  IF IsStr(content)
    THEN Return([id |-> next_id(all_rows), conversation_id |-> conversation_id,
                 role |-> role, content |-> content.str, created_at |-> now])
    ELSE Raise(DBAPIError)

\* an ORDER BY created_at ASC that delivers rows of equal created_at with
\* the row inserted last first
order_by_created_at_ties_reversed(rows) ==
  LET n == Len(rows)
      Before(i, j) == \/ rows[i].created_at < rows[j].created_at
                      \/ rows[i].created_at = rows[j].created_at /\ i > j
      Rank(i) == Cardinality({j \in 1..n : Before(j, i)}) + 1
  IN [k \in 1..n |-> rows[CHOOSE i \in 1..n : Rank(i) = k]]

\* what ORDER BY created_at ASC delivers for rows, which are in the order
\* of the scan of the table, that is of their keys: the rows by created_at.
\* The statement names no further sort key; the database is SQLite, whose
\* sorter leaves rows of equal created_at in the order of the scan
order_by_created_at(rows) ==
  LET n == Len(rows)
      Before(i, j) == \/ rows[i].created_at < rows[j].created_at
                      \/ rows[i].created_at = rows[j].created_at /\ i < j
      Rank(i) == Cardinality({j \in 1..n : Before(j, i)}) + 1
  IN [k \in 1..n |-> rows[CHOOSE i \in 1..n : Rank(i) = k]]

\* rows of the statement's WHERE clause, in table order
where_conversation(visible, conversation_id) ==
  LET Of(row) == row.conversation_id = conversation_id
  IN SelectSeq(visible, Of)

\* MessageRepository.get_by_conversation: the list the query returns
get_by_conversation(visible, conversation_id) ==
  order_by_created_at(where_conversation(visible, conversation_id))

\* MessageService._build_message_context
build_message_context(rows) ==
  [i \in 1..Len(rows) |-> [role |-> rows[i].role, content |-> rows[i].content]]

\* ------------------------------------------------------------------------
\* State
\* ------------------------------------------------------------------------
VARIABLES
  agents,         \* committed Agent rows
  conversations,  \* committed Conversation rows
  messages,       \* committed Message rows, in insertion order
  token_usage,    \* committed TokenUsage rows, in insertion order
  session,        \* the tables as the connection holds them: the committed rows
                  \* with what the sessions have flushed since the last commit
  pc,             \* per request: where the request is
  req,            \* per request: arguments and locals of send_message
  llm_ok,         \* per conversation: number of chat calls that returned
  clock,          \* the database clock, in ticks of its resolution
  provider,       \* what the LLM provider may answer to a request
  ret,            \* per caller: the call it has made last, and where the call is
                  \* or how it ended
  h_max_retries,  \* chat run: self.max_retries
  h_attempt,      \* chat run: the loop variable attempt
  h_result,       \* chat run: [tag |-> "running"], or what chat returned or raised
  h_outcomes      \* chat run: what the provider did on each request made so far

hvars == <<h_max_retries, h_attempt, h_result, h_outcomes>>
dbvars == <<agents, conversations, messages, token_usage>>
svars == <<agents, conversations, messages, token_usage, session, pc, req, llm_ok,
           clock, ret>>
vars == <<agents, conversations, messages, token_usage, session, pc, req, llm_ok,
          clock, provider, ret,
          h_max_retries, h_attempt, h_result, h_outcomes>>

Req == 1..NumReq
ConvIds == {1, 2}
Contents == {"Hello", "Bye"}

\* the rows created by the fixtures db_with_agent, db_with_conversation
InitialAgents ==
  { [id |-> 1, name |-> "Test Agent",
     system_prompt |-> "You are a helpful test assistant.",
     description |-> Some("A test agent for testing purposes"), updated_at |-> 0] }
InitialConversations == {[id |-> 1, agent_id |-> 1, title |-> Some("Test Conversation")]}
\* the rows of the fixture db_with_messages, with the ticks of the database
\* clock at their INSERTs
FixtureMessages(t) ==
  << [id |-> 1, conversation_id |-> 1, role |-> "user",
      content |-> "Hello, how are you?", created_at |-> t[1]],
     [id |-> 2, conversation_id |-> 1, role |-> "assistant",
      content |-> "I'm doing well, thank you! How can I help you today?",
      created_at |-> t[2]],
     [id |-> 3, conversation_id |-> 1, role |-> "user",
      content |-> "Can you help me with Python?", created_at |-> t[3]] >>
\* the fixture adds the three rows and commits once, so the three INSERTs run
\* in one flush: they carry one tick of the clock, or two when a tick ends
\* between two of the INSERTs
FixtureTicks == {<<3, 3, 3>>, <<2, 3, 3>>, <<2, 2, 3>>}
\* no message yet, or the rows of the fixture
InitialHistories == {<<>>} \cup {FixtureMessages(t) : t \in FixtureTicks}
\* the database clock when the requests arrive: the tick of the last fixture
\* row or a later one
InitialClocks == {3, 4}

NoReq == [conversation_id |-> 0, content |-> "", conversation |-> None,
          system_prompt |-> "", context |-> <<>>,
          user_message |-> None, attempt |-> 0, requests |-> 0,
          ai_response |-> None, assistant_message |-> None, exc |-> None,
          llm_exc |-> None, response |-> None, held |-> {},
          before |-> [messages |-> <<>>, token_usage |-> <<>>]]

\* the tables of a database
DB(agts, convs, msgs, usage) ==
  [agents |-> agts, conversations |-> convs, messages |-> msgs, token_usage |-> usage]
\* the tables as the last commit left them
Committed == DB(agents, conversations, messages, token_usage)
\* the rows the history query of a session reads.  The engine is the one of
\* tests/conftest.py, sqlite+aiosqlite:///:memory:, which hands its single
\* connection to every session: a statement of any session reads the
\* committed rows and the rows that any session has flushed
Visible == session.messages

\* AsyncSession.commit of any session: the transaction of the connection is
\* committed, with everything the sessions have flushed.  db are the tables
\* the connection holds
Commit(db) ==
  /\ agents' = db.agents
  /\ conversations' = db.conversations
  /\ messages' = db.messages
  /\ token_usage' = db.token_usage
  /\ session' = db

\* AsyncSession.rollback, AsyncSession.close before a commit, and a flush
\* that raised: the transaction of the connection is rolled back, with
\* everything the sessions have flushed
Rollback ==
  /\ session' = Committed
  /\ UNCHANGED dbvars

\* MessageService.send_message, lines 99-102, that stores the user message
\* before it looks the conversation up
send_message_lookup_store_first(db, conversation_id, content, now) ==
  LET conversation == get_by_id(db.conversations, conversation_id)
      created == message_create(db.messages, conversation_id, "user", PyStr(content), now)
      stored == [db EXCEPT !.messages = Append(@, created.value)]
  IN IF IsNone(conversation)
       THEN [exc |-> Some(ConversationNotFoundError), conversation |-> None, db |-> stored]
       ELSE [exc |-> None, conversation |-> conversation, db |-> stored]

\* MessageService.send_message, lines 99-102: the conversation is looked up
\* and ConversationNotFoundError raised when it has no row.  db are the
\* tables the connection holds, before and after.  The relationship
\* Conversation.messages is lazy="selectin": the session loads the messages
\* of the conversation with it and holds them from then on
send_message_lookup(db, conversation_id, content, now) ==
  LET conversation == get_by_id(db.conversations, conversation_id)
  IN IF IsNone(conversation)
       THEN [exc |-> Some(ConversationNotFoundError), conversation |-> None, db |-> db]
       ELSE [exc |-> None, conversation |-> conversation, db |-> db]

\* send_message_prompt that raises when the conversation's agent has no row
send_message_prompt_agent_required(agts, conversation) ==
  LET agent == get_by_id(agts, conversation.agent_id)
  IN IF IsNone(agent)
       THEN [exc |-> Some(AgentNotFoundError), system_prompt |-> ""]
       ELSE [exc |-> None, system_prompt |-> agent[1].system_prompt]

\* MessageService.send_message, lines 104-106: the agent of the conversation
\* is looked up; its system prompt, or the default when it has no row
send_message_prompt(agts, conversation) ==
  LET agent == get_by_id(agts, conversation.agent_id)
  IN [exc |-> None,
      system_prompt |-> IF ~IsNone(agent) THEN agent[1].system_prompt
                        ELSE DefaultSystemPrompt]

\* AsyncSession.refresh(message): the row that holds the key of the object
\* is read again; InvalidRequestError when no row holds it
session_refresh(rows, row) ==
  IF \E i \in DOMAIN rows : rows[i].id = row.id
    THEN Return(rows[CHOOSE i \in DOMAIN rows : rows[i].id = row.id])
    ELSE Raise(InvalidRequestError)

\* the object the session hands out for a row the query returned: the
\* object it already holds for the key of the row, else a new one loaded
\* from the row.  held are the objects the session holds
identity(held, row) ==
  IF \E o \in held : o.id = row.id
    THEN CHOOSE o \in held : o.id = row.id
    ELSE row

\* send_message that builds the context with the newest message first
send_message_context_newest_first(visible, conversation_id, held) ==
  LET rows == get_by_conversation(visible, conversation_id)
      n == Len(rows)
  IN build_message_context([i \in DOMAIN rows |-> identity(held, rows[n + 1 - i])])

\* MessageService.send_message, lines 115-117: the history is read and the
\* context built from the objects the session hands out for its rows
send_message_context(visible, conversation_id, held) ==
  LET rows == get_by_conversation(visible, conversation_id)
  IN build_message_context([i \in DOMAIN rows |-> identity(held, rows[i])])

\* send_message after chat returned ai_response, lines 125-130: store the
\* assistant message.  The content handed to the repository is ai_response
\* itself, the pair (content, token_usage) that chat returns.
send_message_tail(all_rows, conversation_id, ai_response, now) ==
  message_create(all_rows, conversation_id, "assistant",
                 PyTuple(ai_response[1], ai_response[2]), now)

\* send_message_chat that turns every failure of chat into an LLMAPIError
\* without a status code
send_message_chat_wrap(c) ==
  IF c.tag = "raise"
    THEN [exc |-> Some(LLMAPIError(None)), ai_response |-> None]
    ELSE [exc |-> None, ai_response |-> Some(c.value)]

\* MessageService.send_message, lines 119-123, where chat has returned or
\* raised c: the call is not inside a try statement, so what chat raises
\* leaves send_message as it is
send_message_chat(c) ==
  IF c.tag = "raise"
    THEN [exc |-> Some(c.exc), ai_response |-> None]
    ELSE [exc |-> None, ai_response |-> Some(c.value)]

\* ------------------------------------------------------------------------
\* app/main.py, app/routers/messages.py: from exception to response
\* ------------------------------------------------------------------------
\* the classes an exception is an instance of
Mro(type) ==
  CASE type = "LLMTimeoutError" ->
         {"app.services.llm.LLMTimeoutError", "app.services.llm.LLMError", "Exception"}
    [] type = "LLMAPIError" ->
         {"app.services.llm.LLMAPIError", "app.services.llm.LLMError", "Exception"}
    [] type = "ConversationNotFoundError" ->
         {"app.services.message.ConversationNotFoundError", "Exception"}
    [] type = "DBAPIError" -> {"sqlalchemy.exc.DBAPIError", "Exception"}
    [] type = "AttributeError" -> {"AttributeError", "Exception"}
    [] type = "CancelledError" -> {"asyncio.CancelledError", "BaseException"}
    [] OTHER -> {"Exception"}

\* the handlers registered with @app.exception_handler
ExceptionHandlers ==
  { [cls |-> "app.main.NotFoundError", status_code |-> 404, code |-> "NOT_FOUND"],
    [cls |-> "app.main.ValidationError", status_code |-> 422, code |-> "VALIDATION_ERROR"],
    [cls |-> "app.main.LLMError", status_code |-> 502, code |-> "LLM_ERROR"],
    [cls |-> "app.main.TimeoutError", status_code |-> 504, code |-> "TIMEOUT_ERROR"],
    [cls |-> "app.main.DatabaseError", status_code |-> 500, code |-> "DATABASE_ERROR"] }

Response(status_code, code, data) == [status_code |-> status_code, code |-> code, data |-> data]

\* an exception that leaves the endpoint: the handler registered for one of
\* its classes answers; without one the server answers 500
handle_exception(e) ==
  IF \E h \in ExceptionHandlers : h.cls \in Mro(e.type)
    THEN LET h == CHOOSE h \in ExceptionHandlers : h.cls \in Mro(e.type)
         IN Response(h.status_code, h.code, {})
    ELSE Response(500, "", {})

\* the endpoint send_message around the outcome s of MessageService.send_message
send_message_endpoint(s) ==
  IF IsNone(s.exc)
    THEN \* service.token_usage_repository: MessageService has no such attribute
         handle_exception([type |-> "AttributeError", status_code |-> None])
    ELSE IF s.exc[1].type = "ConversationNotFoundError"
      THEN \* HTTPException(status_code=404, detail={... "code": "NOT_FOUND" ...})
           Response(404, "NOT_FOUND", {})
      ELSE handle_exception(s.exc[1])

\* ------------------------------------------------------------------------
\* A run of chat against a provider
\* ------------------------------------------------------------------------
SystemIdle ==
  /\ agents = InitialAgents
  /\ conversations = InitialConversations
  /\ token_usage = <<>>
  /\ pc = [r \in Req |-> "idle"]
  /\ req = [r \in Req |-> NoReq]
  /\ llm_ok = [c \in ConvIds |-> 0]
  /\ ret = None

ChatInit ==
  /\ SystemIdle
  /\ messages = <<>>
  /\ session = Committed
  /\ clock = 0
  /\ provider = Outcomes
  /\ h_max_retries \in -1..MaxRetriesBound
  /\ h_attempt = 0
  /\ h_result = [tag |-> "running"]
  /\ h_outcomes = <<>>

\* chat: one pass through the body of the retry loop
ChatAttempt ==
  /\ h_result.tag = "running"
  /\ h_attempt < h_max_retries + 1
  /\ \E o \in provider :
       LET r == chat_step(h_attempt, h_max_retries, o)
       IN /\ h_outcomes' = Append(h_outcomes, o)
          /\ IF r.tag = "continue"
               THEN /\ h_attempt' = r.attempt
                    /\ h_result' = h_result
               ELSE /\ h_attempt' = h_attempt
                    /\ h_result' = r
  /\ UNCHANGED <<h_max_retries, provider>>
  /\ UNCHANGED svars

\* chat: range(self.max_retries + 1) is empty, the loop body never runs
ChatEmptyLoop ==
  /\ h_result.tag = "running"
  /\ h_outcomes = <<>>
  /\ ~(h_attempt < h_max_retries + 1)
  /\ h_result' = chat_after_loop(None)
  /\ UNCHANGED <<h_max_retries, h_attempt, h_outcomes, provider>>
  /\ UNCHANGED svars

ChatNext == ChatAttempt \/ ChatEmptyLoop

ChatSpec == ChatInit /\ [][ChatNext]_vars

\* ------------------------------------------------------------------------
\* Send-message requests against the database
\* ------------------------------------------------------------------------
Init ==
  /\ SystemIdle
  /\ messages \in InitialHistories
  /\ session = Committed
  /\ clock \in InitialClocks
  /\ provider = RequestOutcomes
  /\ h_max_retries = DefaultMaxRetries
  /\ h_attempt = 0
  /\ h_result = [tag |-> "running"]
  /\ h_outcomes = <<>>

\* the request r as it arrives
Arrived(conversation_id, content) ==
  [NoReq EXCEPT !.conversation_id = conversation_id,
                !.content = content,
                !.before = [messages |-> messages, token_usage |-> token_usage]]

\* send_message has raised: its local variables are gone.  What is kept of
\* the request q is what it was called with, what it stored and what the LLM
\* client did
Left(q, exc) ==
  [q EXCEPT !.exc = Some(exc), !.conversation = None, !.held = {},
            !.system_prompt = "", !.context = <<>>, !.attempt = 0]

\* a request opens a session and send_message looks the conversation up
\* (line 100); when there is none it raises, else it goes on to the lookup
\* of the agent
send_message_begin(r) ==
  /\ pc[r] = "idle"
  /\ \E conversation_id \in ConvIds, content \in Contents :
       LET f == send_message_lookup(session, conversation_id, content, clock)
           held == {Visible[i] : i \in {j \in DOMAIN Visible :
                                          Visible[j].conversation_id = conversation_id}}
       IN /\ req' = [req EXCEPT ![r] =
                       [Arrived(conversation_id, content) EXCEPT
                          !.conversation = f.conversation,
                          !.held = IF IsNone(f.exc) THEN held ELSE {},
                          !.exc = f.exc]]
          /\ session' = f.db
          /\ pc' = [pc EXCEPT ![r] = IF IsNone(f.exc) THEN "agent" ELSE "raised"]
  /\ UNCHANGED <<dbvars, llm_ok, clock, provider, ret, hvars>>

\* send_message looks up the agent of the conversation it found, as the
\* connection holds it now (line 105), and takes its system prompt (106)
send_message_agent(r) ==
  /\ pc[r] = "agent"
  /\ LET p == send_message_prompt(session.agents, req[r].conversation[1])
     IN /\ req' = [req EXCEPT ![r] = IF IsNone(p.exc)
                                       THEN [@ EXCEPT !.system_prompt = p.system_prompt]
                                       ELSE Left(@, p.exc[1])]
        /\ pc' = [pc EXCEPT ![r] = IF IsNone(p.exc) THEN "create" ELSE "raised"]
  /\ UNCHANGED <<dbvars, session, llm_ok, clock, provider, ret, hvars>>

\* send_message stores the user message (lines 109-113): MessageRepository
\* .create adds it and flushes, which runs the INSERT on the connection; a
\* flush that raises rolls the transaction back
send_message_user(r) ==
  /\ pc[r] = "create"
  /\ LET created == message_create(session.messages, req[r].conversation_id, "user",
                                   PyStr(req[r].content), clock)
     IN IF created.tag = "raise"
          THEN /\ req' = [req EXCEPT ![r] = Left(@, created.exc)]
               /\ pc' = [pc EXCEPT ![r] = "raised"]
               /\ Rollback
          ELSE /\ req' = [req EXCEPT
                            ![r].user_message = Some(created.value),
                            ![r].held = {o \in @ : o.id # created.value.id}
                                          \cup {created.value}]
               /\ pc' = [pc EXCEPT ![r] = "refresh"]
               /\ session' = [session EXCEPT !.messages = Append(@, created.value)]
               /\ UNCHANGED dbvars
  /\ UNCHANGED <<llm_ok, clock, provider, ret, hvars>>

\* MessageRepository.create, line 47: the user message is read again from
\* the row that holds its key now
send_message_refresh(r) ==
  /\ pc[r] = "refresh"
  /\ LET f == session_refresh(Visible, req[r].user_message[1])
     IN IF f.tag = "raise"
          THEN /\ req' = [req EXCEPT ![r] = Left(@, f.exc)]
               /\ pc' = [pc EXCEPT ![r] = "raised"]
          ELSE /\ req' = [req EXCEPT
                            ![r].user_message = Some(f.value),
                            ![r].held = {o \in @ : o.id # f.value.id} \cup {f.value}]
               /\ pc' = [pc EXCEPT ![r] = "history"]
  /\ UNCHANGED <<dbvars, session, llm_ok, clock, provider, ret, hvars>>

\* send_message reads the history of the conversation and builds the
\* context (lines 116-117); no later statement reads a row through the
\* session
send_message_history(r) ==
  /\ pc[r] = "history"
  /\ LET context == send_message_context(Visible, req[r].conversation_id, req[r].held)
     IN req' = [req EXCEPT ![r].context = context, ![r].conversation = None,
                           ![r].held = {}]
  /\ pc' = [pc EXCEPT ![r] = "llm"]
  /\ UNCHANGED <<dbvars, session, llm_ok, clock, provider, ret, hvars>>

\* one pass through the retry loop of chat (lines 120-123): a request to the
\* provider and what chat makes of the answer, until chat returns or raises
send_message_llm(r) ==
  /\ pc[r] = "llm"
  /\ \E o \in provider :
       LET c == chat_step(req[r].attempt, DefaultMaxRetries, o)
           requests == req[r].requests + 1
       IN IF c.tag = "continue"
            THEN /\ req' = [req EXCEPT ![r].attempt = c.attempt, ![r].requests = requests]
                 /\ UNCHANGED <<pc, llm_ok>>
            ELSE LET s == send_message_chat(c)
                 IN /\ req' = [req EXCEPT
                                ![r] = [(IF IsNone(s.exc) THEN @ ELSE Left(@, s.exc[1]))
                                          EXCEPT !.ai_response = s.ai_response,
                                                 !.llm_exc = IF c.tag = "raise"
                                                               THEN Some(c.exc) ELSE None,
                                                 !.requests = requests]]
                    /\ llm_ok' = IF c.tag = "return"
                                   THEN [llm_ok EXCEPT ![req[r].conversation_id] = @ + 1]
                                   ELSE llm_ok
                    /\ pc' = [pc EXCEPT ![r] = IF IsNone(s.exc) THEN "assistant"
                                               ELSE "raised"]
  /\ UNCHANGED <<dbvars, session, clock, provider, ret, hvars>>

\* send_message stores the assistant message (lines 126-130): add, flush and
\* refresh of MessageRepository.create; a flush that raises rolls the
\* transaction of the connection back.  After the assistant message it
\* commits (line 132) and returns the two messages (134)
send_message_store(r) ==
  /\ pc[r] \in {"assistant", "commit"}
  /\ IF pc[r] = "assistant"
       THEN LET created == send_message_tail(session.messages, req[r].conversation_id,
                                             req[r].ai_response[1], clock)
            IN IF created.tag = "raise"
                 THEN /\ req' = [req EXCEPT ![r] = Left(@, created.exc)]
                      /\ pc' = [pc EXCEPT ![r] = "raised"]
                      /\ Rollback
                 ELSE /\ req' = [req EXCEPT ![r].assistant_message = Some(created.value)]
                      /\ pc' = [pc EXCEPT ![r] = "commit"]
                      /\ session' = [session EXCEPT !.messages = Append(@, created.value)]
                      /\ UNCHANGED dbvars
       ELSE /\ Commit(session)
            /\ pc' = [pc EXCEPT ![r] = "returned"]
            /\ UNCHANGED req
  /\ UNCHANGED <<llm_ok, clock, provider, ret, hvars>>

\* the caller goes away while send_message is suspended in one of its
\* awaits: at the lookup of the conversation, with the request just arrived,
\* or at any later one.  The task gets asyncio.CancelledError there
cancel(r) ==
  /\ \/ /\ pc[r] = "idle"
        /\ \E conversation_id \in ConvIds, content \in Contents :
             req' = [req EXCEPT ![r] = [Arrived(conversation_id, content) EXCEPT
                                          !.exc = Some(CancelledError)]]
     \/ /\ pc[r] \in {"agent", "create", "refresh", "history", "llm", "assistant", "commit"}
        /\ req' = [req EXCEPT ![r] = Left(@, CancelledError)]
  /\ pc' = [pc EXCEPT ![r] = "raised"]
  /\ UNCHANGED <<dbvars, session, llm_ok, clock, provider, ret, hvars>>

\* the endpoint and the request-scoped session end: after a normal return
\* get_db commits a session whose transaction send_message has committed
\* already (line 132), so no statement reaches the connection; an Exception
\* is answered by rollback and raised again, and
\* CancelledError, which is no Exception, passes to the close of the session,
\* which rolls back as well.  Unless the caller has gone away the response
\* is sent
get_db_exit(r) ==
  /\ pc[r] \in {"returned", "raised"}
  /\ IF pc[r] = "returned" THEN UNCHANGED <<dbvars, session>> ELSE Rollback
  /\ req' = [req EXCEPT ![r].response =
               IF req[r].exc # None /\ req[r].exc[1].type = "CancelledError"
                 THEN None
                 ELSE Some(send_message_endpoint(req[r]))]
  /\ pc' = [pc EXCEPT ![r] = "closed"]
  /\ UNCHANGED <<llm_ok, clock, provider, ret, hvars>>

\* requests of any number of clients: the server takes a new request while
\* others are open
Next ==
  \E r \in DOMAIN pc :
    \/ send_message_begin(r)
    \/ send_message_agent(r)
    \/ send_message_user(r)
    \/ send_message_refresh(r)
    \/ send_message_history(r)
    \/ send_message_llm(r)
    \/ send_message_store(r)
    \/ cancel(r)
    \/ get_db_exit(r)

\* no request other than r is open
Alone(r) == \A q \in DOMAIN pc \ {r} : pc[q] \in {"idle", "closed"}

\* requests of one client, which awaits the response to a request before it
\* sends the next (the client fixture of tests/conftest.py)
SerialNext ==
  \E r \in DOMAIN pc :
    \/ Alone(r) /\ send_message_begin(r)
    \/ send_message_agent(r)
    \/ send_message_user(r)
    \/ send_message_refresh(r)
    \/ send_message_history(r)
    \/ send_message_llm(r)
    \/ send_message_store(r)
    \/ Alone(r) /\ cancel(r)
    \/ get_db_exit(r)

Spec == Init /\ [][SerialNext]_vars

\* ------------------------------------------------------------------------
\* Calls of the repositories and services, await by await.  A caller makes
\* one call after the other, each on a session of the engine; the sessions
\* of all callers work on the one connection of the engine
\* ------------------------------------------------------------------------
\* TokenUsageRepository.create: the object is built and added to the
\* session.  It is what create returns: no statement has run, the object
\* holds no key
token_usage_create(conversation_id, model, prompt_tokens, completion_tokens, total_tokens) ==
  [id |-> None, conversation_id |-> conversation_id, model |-> model,
   prompt_tokens |-> prompt_tokens, completion_tokens |-> completion_tokens,
   total_tokens |-> total_tokens]

\* the INSERT of an added TokenUsage when its session flushes: the row with
\* the key the table gives it.  rows is a table no row was deleted from: the
\* key is one more than the largest key in it
token_usage_insert(rows, usage) == [usage EXCEPT !.id = next_id(rows)]

\* the table after a token usage of total_tokens was recorded for the
\* conversation and committed
recorded(rows, conversation_id, total_tokens) ==
  Append(rows, token_usage_insert(rows, token_usage_create(conversation_id, llm_model,
                                                          2, 3, total_tokens)))

\* TokenUsageRepository.get_total_tokens_by_conversation: func.sum(...) or 0
get_total_tokens_by_conversation(rows, conversation_id) ==
  LET RECURSIVE Sum(_)
      Sum(n) == IF n = 0 THEN 0
                ELSE Sum(n - 1) + (IF rows[n].conversation_id = conversation_id
                                     THEN rows[n].total_tokens ELSE 0)
  IN Sum(Len(rows))

\* a cascade that takes the rows of every conversation with it
cascade_delete_every_row(rows, cids) ==
  IF cids = {} THEN {} ELSE {rows[i].id : i \in DOMAIN rows}

\* relationships Conversation.messages and Conversation.token_usage,
\* cascade="all, delete-orphan": the keys of the rows that are loaded as the
\* children of the conversations with the ids cids and marked for deletion
\* with them
cascade_delete(rows, cids) ==
  {rows[i].id : i \in {j \in DOMAIN rows : rows[j].conversation_id \in cids}}

\* the keys a delete marks, per table
Marked(agts, convs, msgs, usage) ==
  [agents |-> agts, conversations |-> convs, messages |-> msgs, token_usage |-> usage]

\* AsyncSession.flush after session.delete: the DELETE statements, one per
\* marked key; each removes the row that holds the key at that moment
session_flush(db, marked) ==
  LET StaysM(row) == row.id \notin marked.messages
      StaysU(row) == row.id \notin marked.token_usage
  IN DB({a \in db.agents : a.id \notin marked.agents},
        {c \in db.conversations : c.id \notin marked.conversations},
        SelectSeq(db.messages, StaysM),
        SelectSeq(db.token_usage, StaysU))

\* the get_by_id of ConversationRepository.delete that finds a conversation
\* for every id
conversation_delete_get_any_id(db, conversation_id) ==
  [found |-> TRUE,
   marked |-> Marked({}, {c.id : c \in {c \in db.conversations : c.id = conversation_id}},
                     cascade_delete(db.messages, {conversation_id}), {})]

\* ConversationRepository.delete, lines 98-100: get_by_id, and False when
\* there is no such row.  The SELECT loads the conversation and, the
\* relationship Conversation.messages being lazy="selectin", the messages it
\* has at that moment.  db are the tables the connection holds; marked are
\* the keys of the rows the session holds from now on
conversation_delete_get(db, conversation_id) ==
  IF IsNone(get_by_id(db.conversations, conversation_id))
    THEN [found |-> FALSE, marked |-> Marked({}, {}, {}, {})]
    ELSE [found |-> TRUE,
          marked |-> Marked({}, {conversation_id},
                            cascade_delete(db.messages, {conversation_id}), {})]

\* a session.delete(conversation) that leaves the token usage rows in place
conversation_delete_mark_keep_usage(db, marked) == marked

\* ConversationRepository.delete, line 102: session.delete(conversation)
\* marks the conversation and, through the cascades of its relationships,
\* the messages the session holds for it and its token usage rows, which the
\* session loads now (Conversation.token_usage is loaded lazily)
conversation_delete_mark(db, marked) ==
  [marked EXCEPT !.token_usage = cascade_delete(db.token_usage, marked.conversations)]

\* the get_by_id of AgentRepository.delete whose load stops at the
\* conversations
agent_delete_get_shallow(db, agent_id) ==
  LET cids == {c.id : c \in {c \in db.conversations : c.agent_id = agent_id}}
  IN IF IsNone(get_by_id(db.agents, agent_id))
       THEN [found |-> FALSE, marked |-> Marked({}, {}, {}, {})]
       ELSE [found |-> TRUE, marked |-> Marked({agent_id}, cids, {}, {})]

\* AgentRepository.delete, lines 119-121: get_by_id, and False when there is
\* no such row.  The SELECT loads the agent, through Agent.conversations
\* (lazy="selectin") its conversations, and through Conversation.messages
\* their messages, as the connection holds them at that moment
agent_delete_get(db, agent_id) ==
  LET cids == {c.id : c \in {c \in db.conversations : c.agent_id = agent_id}}
  IN IF IsNone(get_by_id(db.agents, agent_id))
       THEN [found |-> FALSE, marked |-> Marked({}, {}, {}, {})]
       ELSE [found |-> TRUE,
             marked |-> Marked({agent_id}, cids, cascade_delete(db.messages, cids), {})]

\* AgentRepository.delete, line 123: session.delete(agent) marks the agent
\* and, through the cascades, the conversations and messages the session
\* holds and the token usage rows of these conversations, which it loads now
agent_delete_mark(db, marked) ==
  [marked EXCEPT !.token_usage = cascade_delete(db.token_usage, marked.conversations)]

\* relationship Conversation.messages, lazy="selectin": the messages a
\* session loads with the conversation
loaded_messages(rows, conversation_id) ==
  {rows[i] : i \in {j \in DOMAIN rows : rows[j].conversation_id = conversation_id}}

\* the look-up of MessageService.get_messages that never raises
get_messages_lookup_skipped(db, conversation_id) ==
  [exc |-> None,
   held |-> loaded_messages(db.messages, conversation_id)]

\* MessageService.get_messages, lines 152-154: the conversation is looked
\* up, ConversationNotFoundError when it has no row.  The session holds the
\* messages that the SELECT loaded with the conversation
get_messages_lookup(db, conversation_id) ==
  IF IsNone(get_by_id(db.conversations, conversation_id))
    THEN [exc |-> Some(ConversationNotFoundError), held |-> {}]
    ELSE [exc |-> None,
          held |-> loaded_messages(db.messages, conversation_id)]

\* MessageService.get_messages, line 156: the list get_by_conversation
\* returns, of the objects the session hands out for the rows
get_messages_rows(visible, conversation_id, held) ==
  LET rows == get_by_conversation(visible, conversation_id)
  IN [i \in DOMAIN rows |-> identity(held, rows[i])]

\* a database that holds two agents with one conversation each
TwoAgents ==
  InitialAgents \cup
  { [id |-> 2, name |-> "Original Name", system_prompt |-> DefaultSystemPrompt,
     description |-> None, updated_at |-> 0] }
TwoConversations ==
  InitialConversations \cup {[id |-> 2, agent_id |-> 2, title |-> None]}
\* the ids the calls are made with; no agent or conversation ever has the id 3
AgentIds == {1, 2, 3}
ConversationIds == {1, 2, 3}
\* the roles of the messages a caller creates before it commits: one message,
\* or a user message and its answer
RoleLists == {<<"user">>, <<"user", "assistant">>}

\* a call: the operation, its argument, what the repository's delete
\* returned, and where the call is or how it ended
Ret(op, arg, deleted, result) == [op |-> op, arg |-> arg, deleted |-> deleted, result |-> result]
\* a caller that has made no call yet
NoCall == Ret("", 0, None, [tag |-> "idle"])
\* a call that is suspended before its await named stage, with its local
\* variables loc
Running(stage, loc) == [tag |-> "running", stage |-> stage, loc |-> loc]
InFlight(k) == ret[k].result.tag = "running"
At(k, op, stage) == InFlight(k) /\ ret[k].op = op /\ ret[k].result.stage = stage
\* the service call has returned or raised outcome.  The call of a request
\* to an endpoint goes on to the end of get_db, any other call has ended
finish(request, outcome) ==
  IF request THEN Running("exit", [outcome |-> outcome]) ELSE outcome
\* the call has raised outcome with statements of its session flushed: the
\* caller ends and its session is closed
closing(outcome) == Running("close", [outcome |-> outcome])
\* one caller, who awaits each call before the next, as the tests of
\* tests/unit/test_repositories.py do
OneCaller == <<NoCall>>
\* two callers, whose calls interleave at their awaits
TwoCallers == <<NoCall, NoCall>>

\* the token usage records the database holds; no service, router or test
\* adds one.  One record in each of the two conversations
ConcUsage == recorded(recorded(<<>>, 1, 5), 2, 7)
\* and a second record in conversation 1
InitialUsages == {ConcUsage, recorded(ConcUsage, 1, 5)}

\* two agents with a conversation each, no message yet
CrudWorld ==
  /\ agents = TwoAgents
  /\ conversations = TwoConversations
  /\ messages = <<>>
  /\ token_usage \in InitialUsages
  /\ session = Committed
  /\ pc = [r \in Req |-> "idle"]
  /\ req = [r \in Req |-> NoReq]
  /\ llm_ok = [c \in ConvIds |-> 0]
  /\ clock = 0
  /\ provider = RequestOutcomes
  /\ h_max_retries = DefaultMaxRetries
  /\ h_attempt = 0
  /\ h_result = [tag |-> "running"]
  /\ h_outcomes = <<>>

CrudInit == CrudWorld /\ ret = OneCaller

\* the number of messages a create in flight has yet to insert
ToInsert(call) ==
  IF call.op = "create_message" /\ call.result.tag = "running"
       /\ call.result.stage # "close"
    THEN Len(call.result.loc.roles) - Len(call.result.loc.created)
    ELSE 0
\* the number of messages the creates in flight have yet to insert
Planned ==
  LET RECURSIVE Sum(_)
      Sum(n) == IF n = 0 THEN 0 ELSE Sum(n - 1) + ToInsert(ret[n])
  IN Sum(Len(ret))

\* a caller creates messages as test_get_messages_by_conversation does:
\* MessageRepository.create for each of roles on one session, then one
\* commit.  This is the first create up to its flush (line 46), which runs
\* the INSERT.  The INSERT is run for any conversation_id, SQLite does not
\* check the foreign key
create_message(k, conversation_id, roles, content) ==
  /\ ~InFlight(k)
  /\ Len(session.messages) + Planned + Len(roles) <= MaxMessages
  /\ LET created == message_create(session.messages, conversation_id, roles[1],
                                   PyStr(content), clock)
     IN /\ session' = [session EXCEPT !.messages = Append(@, created.value)]
        /\ ret' = [ret EXCEPT ![k] =
                     Ret("create_message", conversation_id, None,
                         Running("refresh", [roles |-> roles, content |-> content,
                                             created |-> <<created.value>>]))]
  /\ UNCHANGED <<dbvars, pc, req, llm_ok, clock, provider, hvars>>

\* the next await of the caller that creates messages: the refresh of the
\* message just inserted (line 47), the flush of the next create (line 46),
\* after the last create the commit of the caller, or the end of the session
\* of a caller whose create raised
create_message_step(k) ==
  /\ InFlight(k) /\ ret[k].op = "create_message"
  /\ LET call == ret[k]
         stage == call.result.stage
         loc == call.result.loc
         n == Len(loc.created)
     IN CASE stage = "refresh" ->
               LET f == session_refresh(session.messages, loc.created[n])
               IN /\ ret' = [ret EXCEPT ![k].result =
                               IF f.tag = "raise" THEN closing(f)
                               ELSE Running(IF n < Len(loc.roles) THEN "flush" ELSE "commit",
                                            [loc EXCEPT !.created[n] = f.value])]
                  /\ UNCHANGED <<dbvars, session>>
          [] stage = "flush" ->
               LET created == message_create(session.messages, call.arg, loc.roles[n + 1],
                                             PyStr(loc.content), clock)
               IN /\ session' = [session EXCEPT !.messages = Append(@, created.value)]
                  /\ ret' = [ret EXCEPT ![k].result =
                               Running("refresh",
                                       [loc EXCEPT !.created = Append(@, created.value)])]
                  /\ UNCHANGED dbvars
          [] stage = "commit" ->
               /\ Commit(session)
               /\ ret' = [ret EXCEPT ![k].result = Return(loc.created)]
          [] stage = "close" ->
               /\ Rollback
               /\ ret' = [ret EXCEPT ![k].result = loc.outcome]
  /\ UNCHANGED <<pc, req, llm_ok, clock, provider, hvars>>

\* AgentService.delete_agent, line 127, up to the first await of
\* AgentRepository.delete: the agent is looked up; when it has no row the
\* repository returns False and the service raises AgentNotFoundError
delete_agent(k, agent_id, request) ==
  /\ ~InFlight(k)
  /\ LET g == agent_delete_get(session, agent_id)
     IN ret' = [ret EXCEPT ![k] =
                  IF g.found
                    THEN Ret("delete_agent", agent_id, None, Running("delete", g.marked))
                    ELSE Ret("delete_agent", agent_id, Some(FALSE),
                             finish(request, Raise(AgentNotFoundError)))]
  /\ UNCHANGED <<dbvars, session, pc, req, llm_ok, clock, provider, hvars>>

\* ConversationService.delete_conversation, line 154, up to the first await
\* of ConversationRepository.delete: the conversation is looked up; when it
\* has no row the repository returns False and the service raises
\* ConversationNotFoundError
delete_conversation(k, conversation_id, request) ==
  /\ ~InFlight(k)
  /\ LET g == conversation_delete_get(session, conversation_id)
     IN ret' = [ret EXCEPT ![k] =
                  IF g.found
                    THEN Ret("delete_conversation", conversation_id, None,
                             Running("delete", g.marked))
                    ELSE Ret("delete_conversation", conversation_id, Some(FALSE),
                             finish(request, Raise(ConversationNotFoundError)))]
  /\ UNCHANGED <<dbvars, session, pc, req, llm_ok, clock, provider, hvars>>

\* the next await of a delete in flight: session.delete, which marks the
\* rows; the flush of the repository, which deletes the rows with the marked
\* keys; the commit of the service, after which it returns True
delete_step(k, request) ==
  /\ InFlight(k) /\ ret[k].op \in {"delete_agent", "delete_conversation"}
  /\ ret[k].result.stage \in {"delete", "flush", "commit"}
  /\ LET call == ret[k]
         stage == call.result.stage
         marked == call.result.loc
     IN CASE stage = "delete" ->
               /\ ret' = [ret EXCEPT ![k].result =
                            Running("flush",
                                    IF call.op = "delete_agent"
                                      THEN agent_delete_mark(session, marked)
                                      ELSE conversation_delete_mark(session, marked))]
               /\ UNCHANGED <<dbvars, session>>
          [] stage = "flush" ->
               /\ session' = session_flush(session, marked)
               /\ UNCHANGED dbvars
               /\ ret' = [ret EXCEPT ![k].deleted = Some(TRUE),
                                     ![k].result = Running("commit", Marked({}, {}, {}, {}))]
          [] stage = "commit" ->
               /\ Commit(session)
               /\ ret' = [ret EXCEPT ![k].result = finish(request, Return(TRUE))]
  /\ UNCHANGED <<pc, req, llm_ok, clock, provider, hvars>>

\* MessageService.get_messages up to its first await, the look-up of the
\* conversation
get_messages(k, conversation_id) ==
  /\ ~InFlight(k)
  /\ LET f == get_messages_lookup(session, conversation_id)
     IN ret' = [ret EXCEPT ![k] =
                  Ret("get_messages", conversation_id, None,
                      IF IsNone(f.exc) THEN Running("messages", [held |-> f.held])
                      ELSE Raise(f.exc[1]))]
  /\ UNCHANGED <<dbvars, session, pc, req, llm_ok, clock, provider, hvars>>

\* MessageService.get_messages, line 156: the messages are read and returned
get_messages_step(k) ==
  /\ At(k, "get_messages", "messages")
  /\ LET rows == get_messages_rows(session.messages, ret[k].arg, ret[k].result.loc.held)
     IN ret' = [ret EXCEPT ![k].result = Return(rows)]
  /\ UNCHANGED <<dbvars, session, pc, req, llm_ok, clock, provider, hvars>>

\* the database clock reaches its next tick
tick ==
  /\ clock < MaxClock
  /\ clock' = clock + 1
  /\ UNCHANGED <<dbvars, session, pc, req, llm_ok, provider, ret, hvars>>

CrudNext ==
  \/ \E k \in DOMAIN ret, conversation_id \in ConvIds, roles \in RoleLists :
       create_message(k, conversation_id, roles, "Hello")
  \/ \E k \in DOMAIN ret : create_message_step(k)
  \/ \E k \in DOMAIN ret, agent_id \in AgentIds : delete_agent(k, agent_id, FALSE)
  \/ \E k \in DOMAIN ret, conversation_id \in ConversationIds :
       delete_conversation(k, conversation_id, FALSE)
  \/ \E k \in DOMAIN ret : delete_step(k, FALSE)
  \/ \E k \in DOMAIN ret, conversation_id \in ConversationIds :
       get_messages(k, conversation_id)
  \/ \E k \in DOMAIN ret : get_messages_step(k)
  \/ tick

CrudSpec == CrudInit /\ [][CrudNext]_vars

\* the same calls made by two callers at once
CrudConcInit == CrudWorld /\ ret = TwoCallers
CrudConcSpec == CrudConcInit /\ [][CrudNext]_vars

\* ------------------------------------------------------------------------
\* Concurrent send-message requests on two conversations
\* ------------------------------------------------------------------------
\* the provider behaviours drawn in the concurrent requests: an answer that
\* chat returns and a timeout
ConcOutcomes ==
  { o \in RequestOutcomes :
      \/ o.kind = "timeout"
      \/ /\ o.kind = "response" /\ o.status = HTTP_OK
         /\ o.body.choices = <<[object |-> TRUE, content |-> Some("Hi there")]>> }

\* one message in each of the two conversations
ConcHistory ==
  << [id |-> 1, conversation_id |-> 1, role |-> "user",
      content |-> "Hello, how are you?", created_at |-> 1],
     [id |-> 2, conversation_id |-> 2, role |-> "user",
      content |-> "Can you help me with Python?", created_at |-> 2] >>

ConcInit ==
  /\ agents = TwoAgents
  /\ conversations = TwoConversations
  /\ messages = ConcHistory
  /\ token_usage = ConcUsage
  /\ session = Committed
  /\ pc = [r \in 1..NumConc |-> "idle"]
  /\ req = [r \in 1..NumConc |-> NoReq]
  /\ llm_ok = [c \in ConvIds |-> 0]
  /\ clock = 2
  /\ provider = ConcOutcomes
  /\ ret = None
  /\ h_max_retries = DefaultMaxRetries
  /\ h_attempt = 0
  /\ h_result = [tag |-> "running"]
  /\ h_outcomes = <<>>

ConcSpec == ConcInit /\ [][Next]_vars

\* ------------------------------------------------------------------------
\* Properties of send_message
\* ------------------------------------------------------------------------
Raised(r, types) == req[r].exc # None /\ req[r].exc[1].type \in types
Stored(row) == \E i \in DOMAIN messages : messages[i] = row
UsageOf(c) == {i \in DOMAIN token_usage : token_usage[i].conversation_id = c}

\* C1: once a send_message whose LLM call failed (timeout or API error) and
\* its request have ended, the stored messages are those from before the
\* operation followed by one new user message with the given content in the
\* given conversation, and the stored token usage is as before.
C1_FailedCallLeavesUserMessage ==
  \A r \in Req :
    (pc[r] = "closed" /\ Raised(r, {"LLMTimeoutError", "LLMAPIError"}) /\ Alone(r))
      => /\ Len(messages) = Len(req[r].before.messages) + 1
         /\ SubSeq(messages, 1, Len(req[r].before.messages)) = req[r].before.messages
         /\ messages[Len(messages)].role = "user"
         /\ messages[Len(messages)].content = req[r].content
         /\ messages[Len(messages)].conversation_id = req[r].conversation_id
         /\ token_usage = req[r].before.token_usage

\* C2: while the LLM call of a send_message is in flight its user message is
\* already among the committed rows, and it is still stored after the caller
\* aborted during the call and the request ended.
C2_UserMessageCommittedBeforeCall ==
  \A r \in Req :
    /\ pc[r] = "llm" => Stored(req[r].user_message[1])
    /\ (pc[r] = "closed" /\ Raised(r, {"CancelledError"}) /\ req[r].user_message # None)
         => Stored(req[r].user_message[1])

\* C3: a send_message on a conversation id that does not exist, whose caller
\* stays for the lookup, raises ConversationNotFoundError without any
\* request to the LLM and without flushing or committing a row, and the end
\* of its request leaves the stored messages and token usage as they were.
C3_NotFoundNoSideEffects ==
  [][\A r \in Req :
       /\ ( /\ pc[r] = "idle" /\ pc'[r] # "idle"
            /\ req'[r].exc # Some(CancelledError)
            /\ ~\E c \in session.conversations : c.id = req'[r].conversation_id )
            => /\ pc'[r] = "raised"
               /\ req'[r].exc = Some(ConversationNotFoundError)
               /\ req'[r].requests = 0
               /\ llm_ok' = llm_ok
               /\ session' = session
               /\ messages' = messages
               /\ token_usage' = token_usage
       /\ ( /\ pc[r] = "raised" /\ Raised(r, {"ConversationNotFoundError"})
            /\ pc'[r] # pc[r] )
            => /\ pc'[r] = "closed"
               /\ [req'[r] EXCEPT !.response = None] = req[r]
               /\ llm_ok' = llm_ok
               /\ messages' = messages
               /\ token_usage' = token_usage
       /\ (pc[r] = "closed" /\ Raised(r, {"ConversationNotFoundError"}))
            => (pc'[r] = "closed" /\ req'[r] = req[r])
    ]_vars

C3_Witness ==
  \E r \in Req :
    /\ pc[r] = "closed" /\ Raised(r, {"ConversationNotFoundError"})
    /\ req[r].conversation_id = 2 /\ req[r].requests = 0
    /\ Len(messages) = 3

\* C4: once the LLM call of a send_message has succeeded and the operation
\* has ended, the operation has returned its user message and an assistant
\* message, and that assistant message is stored with role assistant and
\* with the text returned by chat as its content.
C4_AssistantMessageHoldsText ==
  \A r \in Req :
    (req[r].ai_response # None /\ pc[r] \in {"returned", "raised", "closed"})
      => /\ req[r].exc = None
         /\ req[r].user_message # None
         /\ req[r].assistant_message # None
         /\ req[r].assistant_message[1].role = "assistant"
         /\ req[r].assistant_message[1].content = req[r].ai_response[1][1]
         /\ Stored(req[r].assistant_message[1])

\* C5: when no send_message is in progress, every conversation has as many
\* token usage records as LLM calls succeeded for it, and the call of each
\* ended send_message has a record with the configured model name and the
\* three counts that chat returned.
C5_OneTokenUsagePerSuccessfulCall ==
  (\A r \in Req : pc[r] \in {"idle", "closed"})
    => /\ \A c \in ConvIds : Cardinality(UsageOf(c)) = llm_ok[c]
       /\ \A r \in Req :
            req[r].ai_response # None
              => \E i \in UsageOf(req[r].conversation_id) :
                   /\ token_usage[i].model = llm_model
                   /\ token_usage[i].prompt_tokens = req[r].ai_response[1][2].prompt_tokens
                   /\ token_usage[i].completion_tokens = req[r].ai_response[1][2].completion_tokens
                   /\ token_usage[i].total_tokens = req[r].ai_response[1][2].total_tokens

\* ------------------------------------------------------------------------
\* Properties of chat
\* ------------------------------------------------------------------------
Finished == h_result.tag # "running"
N == Len(h_outcomes)

Is503(o) == o.kind = "response" /\ o.status = 503
\* a 200 response whose body parse_llm_response accepts
IsGood200(o) ==
  /\ o.kind = "response" /\ o.status = 200
  /\ o.body.json /\ o.body.choices # <<>>
  /\ o.body.choices[1].object /\ o.body.choices[1].content # None

\* what one attempt ends in, before the retry decision
IsTimeoutAttempt(o) == o.kind = "timeout"
IsUnexpectedAttempt(o) == chat_try(o).tag = "raise" /\ chat_try(o).exc.type = "Exception"
IsAPIErrorAttempt(o) == chat_try(o).tag = "raise" /\ chat_try(o).exc.type = "LLMAPIError"
StatusIn5xx(e) == e.status_code # None /\ e.status_code[1] \in 500..599

\* C6: a provider that answers 503 and then an acceptable 200 (with at least
\* one retry allowed) makes chat return the content and usage of that 200
\* body after exactly 2 requests; a provider that answers 503 on every
\* attempt makes chat keep going until exactly max_retries+1 requests were
\* made and then raise the API error with status 503.
C6_RetryThenSuccessOrExhaust ==
  /\ (h_max_retries >= 1 /\ N >= 1 /\ Is503(h_outcomes[1]))
       => /\ N = 1 => ~Finished
          /\ (N >= 2 /\ IsGood200(h_outcomes[2]))
               => /\ N = 2
                  /\ h_result.tag = "return"
                  /\ h_result.value[1] = h_outcomes[2].body.choices[1].content[1]
                  /\ h_result.value[2].prompt_tokens = Get(h_outcomes[2].body.usage.prompt_tokens, 0)
                  /\ h_result.value[2].completion_tokens = Get(h_outcomes[2].body.usage.completion_tokens, 0)
                  /\ h_result.value[2].total_tokens = Get(h_outcomes[2].body.usage.total_tokens, 0)
  /\ (h_max_retries >= 0 /\ \A i \in 1..N : Is503(h_outcomes[i]))
       => /\ N <= h_max_retries + 1
          /\ N < h_max_retries + 1 => ~Finished
          /\ N = h_max_retries + 1 => h_result = Raise(LLMAPIError(Some(503)))

C6_Witness ==
  /\ h_max_retries = 2 /\ N = 2
  /\ Is503(h_outcomes[1]) /\ IsGood200(h_outcomes[2])
  /\ h_result.tag = "return" /\ h_result.value[1] = "Hi there"

\* C7: an attempt that ends in a network timeout is the last request chat
\* makes, and chat raises LLMTimeoutError (not LLMAPIError), also after
\* earlier attempts were retried; a timeout on the first attempt means
\* exactly one request.
C7_TimeoutNeverRetried ==
  \A i \in 1..N :
    IsTimeoutAttempt(h_outcomes[i])
      => /\ i = N
         /\ h_result = Raise(LLMTimeoutError)
         /\ h_result.exc.type # "LLMAPIError"

C7_Witness ==
  /\ N = 2 /\ h_outcomes[1].kind = "response" /\ h_outcomes[1].status = 500
  /\ IsTimeoutAttempt(h_outcomes[2])
  /\ h_result.tag = "raise" /\ h_result.exc.type = "LLMTimeoutError"

\* C8: an attempt that ends in an API error whose status code is absent or
\* outside 500-599 is the last request chat makes and that error is raised
\* to the caller; an API error that was followed by another request had a
\* status code in 500-599.
C8_OnlyServerErrorsRetried ==
  \A i \in 1..N :
    IsAPIErrorAttempt(h_outcomes[i])
      => /\ ~StatusIn5xx(chat_try(h_outcomes[i]).exc)
              => (i = N /\ h_result = chat_try(h_outcomes[i]))
         /\ i < N => StatusIn5xx(chat_try(h_outcomes[i]).exc)

C8_Witness ==
  /\ N = 2 /\ Is503(h_outcomes[1])
  /\ h_outcomes[2].kind = "response" /\ h_outcomes[2].status = 404
  /\ h_result = Raise(LLMAPIError(Some(404)))

\* C9: with max_retries >= 0 chat never makes more than max_retries+1
\* requests, whatever the provider does; it has ended once max_retries+1
\* requests were made, with a parsed result or with a timeout or API error;
\* retried 5xx errors and retried unexpected errors count against the same
\* attempt counter.
C9_BoundedAttempts ==
  h_max_retries >= 0
    => /\ N <= h_max_retries + 1
       /\ N = h_max_retries + 1 => Finished
       /\ ~Finished => h_attempt = N
       /\ h_result.tag = "raise" => h_result.exc.type \in {"LLMTimeoutError", "LLMAPIError"}
       /\ h_result.tag = "return" => IsGood200(h_outcomes[N])

C9_Witness ==
  /\ h_max_retries = 2 /\ N = 3 /\ Finished
  /\ Is503(h_outcomes[1])
  /\ IsUnexpectedAttempt(h_outcomes[2])

\* C10: an attempt that ends in an unexpected error (neither timeout nor API
\* error) is followed by another attempt while attempts remain; on the last
\* allowed attempt chat raises an LLMAPIError without status code, and chat
\* never raises the unexpected error itself.
C10_UnexpectedRetriedThenWrapped ==
  /\ \A i \in 1..N :
       (h_max_retries >= 0 /\ IsUnexpectedAttempt(h_outcomes[i]))
         => /\ (i < h_max_retries + 1 /\ i = N) => ~Finished
            /\ i = h_max_retries + 1 => (i = N /\ h_result = Raise(LLMAPIError(None)))
  /\ h_result.tag = "raise" => h_result.exc.type # "Exception"

C10_Witness ==
  /\ h_max_retries = 1 /\ N = 2
  /\ IsUnexpectedAttempt(h_outcomes[1]) /\ IsUnexpectedAttempt(h_outcomes[2])
  /\ h_result = Raise(LLMAPIError(None))

\* ------------------------------------------------------------------------
\* Properties of the history query, of the deletes and of the endpoint
\* ------------------------------------------------------------------------
Called(op) == ret # None /\ ret[1].op = op
CalledNext(op) == ret' # None /\ ret'[1].op = op
OfConversations(rows, cids) == {i \in DOMAIN rows : rows[i].conversation_id \in cids}
Without(rows, cids) ==
  LET Other(row) == row.conversation_id \notin cids
  IN SelectSeq(rows, Other)
\* the step in which the caller k makes a call of op
Begins(k, op) ==
  /\ ~InFlight(k)
  /\ ret'[k].op = op
  /\ ret[k].op # op \/ ret'[k] # ret[k]
\* the step in which the call of op that the caller k has made goes past its
\* await stage
Passes(k, op, stage) == At(k, op, stage) /\ ~(At(k, op, stage))'
\* the step in which the call of op that the caller k has made returns
Returns(k, op) ==
  /\ InFlight(k) /\ ret[k].op = op
  /\ ret'[k].result.tag = "return"

\* C11: the list that get_messages returns holds messages of the asked
\* conversation only, does not decrease in created_at, and has the messages
\* in the order of their insertion (the order of their primary keys), also
\* when several of them were created within one tick of the clock.
C11_HistoryInInsertionOrder ==
  (Called("get_messages") /\ ret[1].result.tag = "return")
    => LET rows == ret[1].result.value
       IN /\ \A i \in DOMAIN rows : rows[i].conversation_id = ret[1].arg
          /\ \A i, j \in DOMAIN rows : i < j => rows[i].created_at <= rows[j].created_at
          /\ \A i, j \in DOMAIN rows : i < j => rows[i].id < rows[j].id

\* get_messages has returned the two messages of conversation 1, which were
\* created within one tick of the clock, the one created first in front
C11_Witness ==
  /\ Called("get_messages") /\ ret[1].arg = 1 /\ ret[1].result.tag = "return"
  /\ LET rows == ret[1].result.value
     IN /\ Len(rows) = 2
        /\ rows[1].id = 1 /\ rows[2].id = 2
        /\ rows[1].created_at = rows[2].created_at
        /\ rows[1].role = "user" /\ rows[2].role = "assistant"

\* C12: a delete_agent on an agent that exists does not raise, and when it
\* returns it has removed the agent, its conversations and every message
\* and token usage record of these conversations, has left no row without
\* its parent, and has left the rows of all other agents as they were;
\* before it returns no stored row changes.
C12_DeleteAgentCascades ==
  [][\A k \in DOMAIN ret :
       /\ (Begins(k, "delete_agent") /\ \E a \in agents : a.id = ret'[k].arg)
            => ret'[k].result.tag = "running" /\ UNCHANGED dbvars
       /\ (InFlight(k) /\ ret[k].op = "delete_agent" /\ ~Returns(k, "delete_agent"))
            => UNCHANGED dbvars
       /\ Returns(k, "delete_agent")
            => LET agent_id == ret[k].arg
                   owned == {c.id : c \in {c \in conversations : c.agent_id = agent_id}}
               IN /\ \E a \in agents : a.id = agent_id
                  /\ ret'[k].result = Return(TRUE)
                  /\ ~\E a \in agents' : a.id = agent_id
                  /\ ~\E c \in conversations' : c.agent_id = agent_id
                  /\ OfConversations(messages', owned) = {}
                  /\ OfConversations(token_usage', owned) = {}
                  /\ \A c \in conversations' : \E a \in agents' : a.id = c.agent_id
                  /\ \A i \in DOMAIN messages' :
                       (\E c \in conversations : c.id = messages'[i].conversation_id)
                         => \E c \in conversations' : c.id = messages'[i].conversation_id
                  /\ \A i \in DOMAIN token_usage' :
                       (\E c \in conversations : c.id = token_usage'[i].conversation_id)
                         => \E c \in conversations' : c.id = token_usage'[i].conversation_id
                  /\ agents' = {a \in agents : a.id # agent_id}
                  /\ conversations' = {c \in conversations : c.agent_id # agent_id}
                  /\ messages' = Without(messages, owned)
                  /\ token_usage' = Without(token_usage, owned)
                  /\ session' = Committed'
    ]_vars

\* agent 1 has been deleted: its conversation, the message with the key 1
\* and its two token usage records are gone, the conversation, the message
\* and the token usage record of agent 2 are still there
C12_Witness ==
  /\ Called("delete_agent") /\ ret[1].arg = 1 /\ ret[1].result = Return(TRUE)
  /\ agents = {a \in TwoAgents : a.id = 2}
  /\ conversations = {c \in TwoConversations : c.id = 2}
  /\ Len(messages) = 1 /\ messages[1].id = 2 /\ messages[1].conversation_id = 2
  /\ Len(token_usage) = 1 /\ token_usage[1].id = 2 /\ token_usage[1].conversation_id = 2

\* C13: a delete_conversation on a conversation that exists does not raise,
\* and when it returns it has removed the conversation and all its messages
\* and token usage records and has left the agents, the other conversations
\* and their messages and token usage as they were; before it returns no
\* stored row changes.
C13_DeleteConversationCascades ==
  [][\A k \in DOMAIN ret :
       /\ (Begins(k, "delete_conversation") /\ \E c \in conversations : c.id = ret'[k].arg)
            => ret'[k].result.tag = "running" /\ UNCHANGED dbvars
       /\ (InFlight(k) /\ ret[k].op = "delete_conversation"
             /\ ~Returns(k, "delete_conversation"))
            => UNCHANGED dbvars
       /\ Returns(k, "delete_conversation")
            => LET conversation_id == ret[k].arg
               IN /\ \E c \in conversations : c.id = conversation_id
                  /\ ret'[k].result = Return(TRUE)
                  /\ ~\E c \in conversations' : c.id = conversation_id
                  /\ OfConversations(messages', {conversation_id}) = {}
                  /\ OfConversations(token_usage', {conversation_id}) = {}
                  /\ agents' = agents
                  /\ conversations' = {c \in conversations : c.id # conversation_id}
                  /\ messages' = Without(messages, {conversation_id})
                  /\ token_usage' = Without(token_usage, {conversation_id})
                  /\ session' = Committed'
    ]_vars

\* conversation 2 was deleted with its token usage record; agent 2,
\* conversation 1 and the two messages and two token usage records of
\* conversation 1 are still there
C13_Witness ==
  /\ Called("delete_conversation") /\ ret[1].arg = 2 /\ ret[1].result = Return(TRUE)
  /\ agents = TwoAgents
  /\ conversations = {c \in TwoConversations : c.id = 1}
  /\ Len(messages) = 2 /\ OfConversations(messages, {1}) = {1, 2}
  /\ Len(token_usage) = 2 /\ OfConversations(token_usage, {1}) = {1, 2}
  /\ clock = 1

\* C14: when a request to the send-message endpoint has been answered, a
\* ConversationNotFoundError of the service has given a 404 response with
\* the code NOT_FOUND, an LLMAPIError of the LLM client a 502 response with
\* the code LLM_ERROR, and an LLMTimeoutError a 504 response with the code
\* TIMEOUT_ERROR.
C14_ErrorResponses ==
  \A r \in DOMAIN pc :
    (pc[r] = "closed" /\ req[r].response # None)
      => LET response == req[r].response[1]
         IN /\ Raised(r, {"ConversationNotFoundError"})
                 => response.status_code = 404 /\ response.code = "NOT_FOUND"
            /\ (req[r].llm_exc # None /\ req[r].llm_exc[1].type = "LLMAPIError")
                 => response.status_code = 502 /\ response.code = "LLM_ERROR"
            /\ (req[r].llm_exc # None /\ req[r].llm_exc[1].type = "LLMTimeoutError")
                 => response.status_code = 504 /\ response.code = "TIMEOUT_ERROR"

\* C15: a single send-message request on a conversation without messages
\* whose LLM call returned the text T and a usage with the total t is
\* answered with 201 and the data user_message, assistant_message and
\* token_usage; afterwards the history holds exactly the user message with
\* the sent content and the assistant message with T, and the total of the
\* token usage of the conversation is t.
C15_EndToEnd ==
  \A r \in DOMAIN pc :
    ( /\ pc[r] = "closed" /\ Alone(r)
      /\ req[r].ai_response # None
      /\ req[r].before.messages = <<>> )
      => /\ req[r].response # None
         /\ req[r].response[1].status_code = 201
         /\ req[r].response[1].data = {"user_message", "assistant_message", "token_usage"}
         /\ Len(messages) = 2
         /\ messages[1].role = "user" /\ messages[1].content = req[r].content
         /\ messages[2].role = "assistant"
         /\ messages[2].content = req[r].ai_response[1][1]
         /\ get_total_tokens_by_conversation(token_usage, req[r].conversation_id)
              = req[r].ai_response[1][2].total_tokens

\* C16: when two send-message requests on the same conversation have both
\* ended and the LLM call of each returned, the stored history holds, next
\* to what it held before, the user message of each request with its
\* content and an assistant message for each with the text of its call.
C16_ConcurrentSendsKeepAllMessages ==
  \A r, q \in DOMAIN pc :
    ( /\ r # q
      /\ pc[r] = "closed" /\ pc[q] = "closed"
      /\ req[r].conversation_id = req[q].conversation_id
      /\ req[r].ai_response # None /\ req[q].ai_response # None )
      => LET cid == req[r].conversation_id
             mine == where_conversation(messages, cid)
             Has(role, content) ==
               {i \in DOMAIN mine : mine[i].role = role /\ mine[i].content = content}
         IN /\ Len(mine) = Len(where_conversation(ConcHistory, cid)) + 4
            /\ Has("user", req[r].content) # {}
            /\ Has("user", req[q].content) # {}
            /\ Cardinality(Has("assistant", req[r].ai_response[1][1])) >= 1
            /\ Cardinality(Has("assistant", req[q].ai_response[1][1])) >= 1
            /\ \A i \in DOMAIN ConcHistory : Stored(ConcHistory[i])

\* C17: every step of a send-message request on a conversation A leaves the
\* committed Message and TokenUsage rows of all other conversations and the
\* rows of other conversations that requests have flushed as they were and
\* flushes rows of A only; the context built for the LLM has entries of rows
\* of A only.
C17_SendTouchesOwnConversationOnly ==
  [][\A r \in DOMAIN pc :
       (pc'[r] # pc[r] \/ req'[r] # req[r])
         => LET A == req'[r].conversation_id
            IN /\ Without(messages', {A}) = Without(messages, {A})
               /\ Without(token_usage', {A}) = Without(token_usage, {A})
               /\ Without(session'.messages, {A}) = Without(session.messages, {A})
               /\ Without(session'.token_usage, {A}) = Without(session.token_usage, {A})
               /\ (pc[r] = "history" /\ pc'[r] = "llm")
                    => \A i \in DOMAIN req'[r].context :
                         \E j \in DOMAIN Visible :
                           /\ Visible[j].conversation_id = A
                           /\ req'[r].context[i] =
                                [role |-> Visible[j].role, content |-> Visible[j].content]
    ]_vars

\* C18: a get_messages on a conversation id without a row raises
\* ConversationNotFoundError; on a conversation that exists it goes on to
\* read the messages and returns a list that holds each stored message of
\* the conversation once and nothing else; in no step of the call a stored
\* row, the connection or the clock changes.
C18_GetMessages ==
  [][\A k \in DOMAIN ret :
       /\ Begins(k, "get_messages")
            => /\ UNCHANGED <<dbvars, session, pc, req, llm_ok, clock>>
               /\ IF \E c \in conversations : c.id = ret'[k].arg
                    THEN ret'[k].result.tag = "running"
                    ELSE ret'[k].result = Raise(ConversationNotFoundError)
       /\ Passes(k, "get_messages", "messages")
            => LET stored == where_conversation(messages, ret[k].arg)
                   result == ret'[k].result
               IN /\ UNCHANGED <<dbvars, session, pc, req, llm_ok, clock>>
                  /\ ret'[k].arg = ret[k].arg
                  /\ result.tag = "return"
                  /\ Len(result.value) = Len(stored)
                  /\ \A i \in DOMAIN stored :
                       \E j \in DOMAIN result.value : result.value[j] = stored[i]
    ]_vars

\* get_messages was called on conversation 1 after its deletion, while
\* conversation 2 still holds a message
C18_Witness ==
  /\ Called("get_messages") /\ ret[1].arg = 1
  /\ ret[1].result = Raise(ConversationNotFoundError)
  /\ Len(messages) = 1 /\ messages[1].conversation_id = 2 /\ messages[1].id = 2

\* C19: when chat has raised in a send_message, send_message has raised the
\* same exception, an LLMTimeoutError or an LLMAPIError with the status code
\* that chat gave it, no assistant message has been created, flushed or
\* stored, and the operation has not returned.
C19_LLMFailurePassedUnchanged ==
  \A r \in DOMAIN pc :
    req[r].llm_exc # None
      => /\ req[r].exc = req[r].llm_exc
         /\ req[r].llm_exc[1].type \in {"LLMTimeoutError", "LLMAPIError"}
         /\ pc[r] \in {"raised", "closed"}
         /\ req[r].assistant_message = None
         /\ Alone(r) =>
              {i \in DOMAIN Visible : Visible[i].role = "assistant"}
                = {i \in DOMAIN req[r].before.messages :
                     req[r].before.messages[i].role = "assistant"}
         /\ Alone(r) =>
              {i \in DOMAIN messages : messages[i].role = "assistant"}
                = {i \in DOMAIN req[r].before.messages :
                     req[r].before.messages[i].role = "assistant"}

\* chat gave up on a 404 answer of the provider and send_message raised the
\* LLMAPIError with that status code
C19_Witness ==
  \E r \in DOMAIN pc :
    /\ pc[r] = "closed"
    /\ req[r].llm_exc = Some(LLMAPIError(Some(404)))
    /\ req[r].exc = Some(LLMAPIError(Some(404)))
    /\ req[r].requests = 1

\* C20: a delete of an agent or conversation that exists goes on to its
\* flush, after which the repository returns True, and when the service
\* returns True get_by_id of its id finds no row; a delete of an id without
\* a row returns False at the repository, raises the not-found error of the
\* service and changes no stored row.
C20_DeleteOnce ==
  [][\A k \in DOMAIN ret :
       /\ Begins(k, "delete_agent")
            => IF \E a \in agents : a.id = ret'[k].arg
                 THEN ret'[k].result.tag = "running" /\ ret'[k].deleted = None
                 ELSE /\ ret'[k].deleted = Some(FALSE)
                      /\ ret'[k].result = Raise(AgentNotFoundError)
                      /\ UNCHANGED <<dbvars, session>>
       /\ Returns(k, "delete_agent")
            => /\ ret'[k].deleted = Some(TRUE)
               /\ ret'[k].result = Return(TRUE)
               /\ get_by_id(agents', ret'[k].arg) = None
               /\ get_by_id(session'.agents, ret'[k].arg) = None
       /\ Begins(k, "delete_conversation")
            => IF \E c \in conversations : c.id = ret'[k].arg
                 THEN ret'[k].result.tag = "running" /\ ret'[k].deleted = None
                 ELSE /\ ret'[k].deleted = Some(FALSE)
                      /\ ret'[k].result = Raise(ConversationNotFoundError)
                      /\ UNCHANGED <<dbvars, session>>
       /\ Returns(k, "delete_conversation")
            => /\ ret'[k].deleted = Some(TRUE)
               /\ ret'[k].result = Return(TRUE)
               /\ get_by_id(conversations', ret'[k].arg) = None
               /\ get_by_id(session'.conversations, ret'[k].arg) = None
    ]_vars

\* conversation 1, which existed, is deleted a second time: the repository
\* returned False and the messages of conversation 2 are still there
C20_Witness ==
  /\ Called("delete_conversation") /\ ret[1].arg = 1 /\ ret[1].deleted = Some(FALSE)
  /\ agents = TwoAgents
  /\ conversations = {c \in TwoConversations : c.id = 2}
  /\ Len(messages) = 2 /\ OfConversations(messages, {2}) = {1, 2}

\* ------------------------------------------------------------------------
\* app/repositories/agent.py, app/services/agent.py: create and update of
\* an agent
\* ------------------------------------------------------------------------
\* sqlalchemy.orm.exc.StaleDataError of session.flush: the UPDATE of a
\* loaded row matched no row
StaleDataError == [type |-> "StaleDataError", status_code |-> None]
\* a field of the AgentUpdate schema: not given, given as null, given a value
Unset == [set |-> FALSE, value |-> None]
Null == [set |-> TRUE, value |-> None]
Given(v) == [set |-> TRUE, value |-> Some(v)]
AgentUpdate(name, system_prompt, description) ==
  [name |-> name, system_prompt |-> system_prompt, description |-> description]
AgentFields == {"name", "system_prompt", "description"}
\* data.model_dump(exclude_unset=True): the fields the caller gave
model_dump_exclude_unset(data) == {field \in AgentFields : data[field].set}

\* the AgentCreate schema: name, system_prompt (with its default) and
\* description (None by default)
AgentCreate(name, system_prompt, description) ==
  [name |-> name, system_prompt |-> system_prompt, description |-> description]
\* the agents the calls create: the one of test_update_agent
AgentCreates == {AgentCreate("Original Name", DefaultSystemPrompt, None)}

\* the primary key the database gives the next row of a table that holds rows
next_key(rows) == IF rows = {} THEN 1 ELSE SeqMax({row.id : row \in rows}) + 1

\* AgentRepository.create, lines 39-45: Agent(name, system_prompt,
\* description), add and flush: the row the INSERT stores, with the server
\* default of updated_at
agent_create(agts, data, now) ==
  [id |-> next_key(agts), name |-> data.name, system_prompt |-> data.system_prompt,
   description |-> data.description, updated_at |-> now]

\* the loop of AgentRepository.update that also assigns the fields given as
\* null
agent_setattr_assign_null(agent, data) ==
  LET update_data == model_dump_exclude_unset(data)
  IN [agent EXCEPT
        !.name = IF "name" \in update_data /\ ~IsNone(data.name.value)
                   THEN data.name.value[1] ELSE @,
        !.system_prompt =
           IF "system_prompt" \in update_data /\ ~IsNone(data.system_prompt.value)
             THEN data.system_prompt.value[1] ELSE @,
        !.description = IF "description" \in update_data
                          THEN data.description.value ELSE @]

\* AgentRepository.update, lines 98-101: setattr for every field of
\* update_data whose value is not None.  agent is the object the session
\* loaded
agent_setattr(agent, data) ==
  LET update_data == model_dump_exclude_unset(data)
      Assigns(field) == field \in update_data /\ ~IsNone(data[field].value)
  IN [agent EXCEPT
        !.name = IF Assigns("name") THEN data.name.value[1] ELSE @,
        !.system_prompt = IF Assigns("system_prompt")
                            THEN data.system_prompt.value[1] ELSE @,
        !.description = IF Assigns("description") THEN data.description.value ELSE @]

\* AgentRepository.update, line 103: the flush.  The unit of work compares
\* the object with what the session loaded: when no attribute changed it
\* runs no statement; else an UPDATE of the changed columns and of
\* updated_at (onupdate=func.now()) on the row that holds the key, and
\* StaleDataError when no row holds it.  agts are the rows the connection
\* holds
agent_flush(agts, loaded, assigned, now) ==
  LET changed == {field \in AgentFields : assigned[field] # loaded[field]}
      row == get_by_id(agts, loaded.id)
      Written(field, value) == IF field \in changed THEN assigned[field] ELSE value
      written == [row[1] EXCEPT !.name = Written("name", @),
                                !.system_prompt = Written("system_prompt", @),
                                !.description = Written("description", @),
                                !.updated_at = now]
  IN IF changed = {} THEN [exc |-> None, agents |-> agts]
     ELSE IF IsNone(row) THEN [exc |-> Some(StaleDataError), agents |-> agts]
     ELSE [exc |-> None, agents |-> (agts \ {row[1]}) \cup {written}]

\* the updates the calls are made with: the one of test_update_agent, a
\* description given as null, two fields at once, a name given as null, and
\* an update that gives no field
AgentUpdates ==
  { AgentUpdate(Given("Updated Name"), Unset, Unset),
    AgentUpdate(Unset, Unset, Null),
    AgentUpdate(Unset, Given("New prompt"), Given("New description")),
    AgentUpdate(Null, Unset, Unset),
    AgentUpdate(Unset, Unset, Unset) }

\* the ids the updates are made with: the agent of the fixture, and the id
\* that has a row once a further agent was created
UpdateTargets == {1, 3}

\* two agents with a conversation each, a message and a token usage record
\* in each conversation
AgentWorld ==
  /\ agents = TwoAgents
  /\ conversations = TwoConversations
  /\ messages = ConcHistory
  /\ token_usage = ConcUsage
  /\ session = Committed
  /\ pc = [r \in Req |-> "idle"]
  /\ req = [r \in Req |-> NoReq]
  /\ llm_ok = [c \in ConvIds |-> 0]
  /\ clock = 0
  /\ provider = RequestOutcomes
  /\ h_max_retries = DefaultMaxRetries
  /\ h_attempt = 0
  /\ h_result = [tag |-> "running"]
  /\ h_outcomes = <<>>

AgentInit == AgentWorld /\ ret = OneCaller

\* AgentService.create_agent, line 55, up to the flush of
\* AgentRepository.create (line 45), which runs the INSERT
create_agent(k, data) ==
  /\ ~InFlight(k)
  /\ Cardinality(session.agents) < MaxAgents
  /\ LET agent == agent_create(session.agents, data, clock)
     IN /\ session' = [session EXCEPT !.agents = @ \cup {agent}]
        /\ ret' = [ret EXCEPT ![k] =
                     Ret("create_agent", [data |-> data], None,
                         Running("refresh", [agent |-> agent]))]
  /\ UNCHANGED <<dbvars, pc, req, llm_ok, clock, provider, hvars>>

\* the next await of a create_agent in flight: the refresh of the
\* repository (line 46), the commit of the service (line 56), after which
\* it returns the agent, or the end of the session of a call that raised
create_agent_step(k) ==
  /\ InFlight(k) /\ ret[k].op = "create_agent"
  /\ LET stage == ret[k].result.stage
         loc == ret[k].result.loc
     IN CASE stage = "refresh" ->
               LET f == get_by_id(session.agents, loc.agent.id)
               IN /\ ret' = [ret EXCEPT ![k].result =
                               IF IsNone(f) THEN closing(Raise(InvalidRequestError))
                               ELSE Running("commit", [agent |-> f[1]])]
                  /\ UNCHANGED <<dbvars, session>>
          [] stage = "commit" ->
               /\ Commit(session)
               /\ ret' = [ret EXCEPT ![k].result = Return(loc.agent)]
          [] stage = "close" ->
               /\ Rollback
               /\ ret' = [ret EXCEPT ![k].result = loc.outcome]
  /\ UNCHANGED <<pc, req, llm_ok, clock, provider, hvars>>

\* AgentService.update_agent, line 106, up to the flush of
\* AgentRepository.update: get_by_id (line 93), None and AgentNotFoundError
\* when the agent has no row, else the loop that assigns the fields
update_agent(k, agent_id, data) ==
  /\ ~InFlight(k)
  /\ LET agent == get_by_id(session.agents, agent_id)
     IN ret' = [ret EXCEPT ![k] =
                  Ret("update_agent", [agent_id |-> agent_id, data |-> data], None,
                      IF IsNone(agent) THEN Raise(AgentNotFoundError)
                      ELSE Running("flush", [loaded |-> agent[1],
                                             agent |-> agent_setattr(agent[1], data)]))]
  /\ UNCHANGED <<dbvars, session, pc, req, llm_ok, clock, provider, hvars>>

\* the next await of an update_agent in flight: the flush of the repository
\* (line 103), which rolls back when it raises; its refresh (line 104); the
\* commit of the service (line 109), after which it returns the agent; or
\* the end of the session of a call that raised
update_agent_step(k) ==
  /\ InFlight(k) /\ ret[k].op = "update_agent"
  /\ LET stage == ret[k].result.stage
         loc == ret[k].result.loc
     IN CASE stage = "flush" ->
               LET f == agent_flush(session.agents, loc.loaded, loc.agent, clock)
               IN IF IsNone(f.exc)
                    THEN /\ session' = [session EXCEPT !.agents = f.agents]
                         /\ UNCHANGED dbvars
                         /\ ret' = [ret EXCEPT ![k].result = Running("refresh", loc)]
                    ELSE /\ Rollback
                         /\ ret' = [ret EXCEPT ![k].result = Raise(f.exc[1])]
          [] stage = "refresh" ->
               LET f == get_by_id(session.agents, loc.loaded.id)
               IN /\ ret' = [ret EXCEPT ![k].result =
                               IF IsNone(f) THEN closing(Raise(InvalidRequestError))
                               ELSE Running("commit", [loc EXCEPT !.agent = f[1]])]
                  /\ UNCHANGED <<dbvars, session>>
          [] stage = "commit" ->
               /\ Commit(session)
               /\ ret' = [ret EXCEPT ![k].result = Return(loc.agent)]
          [] stage = "close" ->
               /\ Rollback
               /\ ret' = [ret EXCEPT ![k].result = loc.outcome]
  /\ UNCHANGED <<pc, req, llm_ok, clock, provider, hvars>>

AgentNext ==
  \/ \E k \in DOMAIN ret, data \in AgentCreates : create_agent(k, data)
  \/ \E k \in DOMAIN ret : create_agent_step(k)
  \/ \E k \in DOMAIN ret, agent_id \in UpdateTargets, data \in AgentUpdates :
       update_agent(k, agent_id, data)
  \/ \E k \in DOMAIN ret : update_agent_step(k)
  \/ \E k \in DOMAIN ret, agent_id \in AgentIds : delete_agent(k, agent_id, FALSE)
  \/ \E k \in DOMAIN ret : delete_step(k, FALSE)
  \/ tick

AgentSpec == AgentInit /\ [][AgentNext]_vars

\* the same calls made by two callers at once
AgentConcInit == AgentWorld /\ ret = TwoCallers
AgentConcSpec == AgentConcInit /\ [][AgentNext]_vars

\* ------------------------------------------------------------------------
\* Properties of update_agent
\* ------------------------------------------------------------------------
OtherAgents(agts, agent_id) == {a \in agts : a.id # agent_id}

\* C21, as stated: update_agent on an existing agent sets every field given
\* in the update to the value given and leaves every other field of the
\* agent and every other record unchanged; on an id without a row it raises
\* AgentNotFoundError and changes nothing.
C21_UpdateSetsSuppliedFields ==
  [][\A k \in DOMAIN ret :
       /\ Begins(k, "update_agent")
            => IF IsNone(get_by_id(agents, ret'[k].arg.agent_id))
                 THEN /\ ret'[k].result = Raise(AgentNotFoundError)
                      /\ UNCHANGED <<dbvars, session>>
                 ELSE ret'[k].result.tag = "running" /\ UNCHANGED dbvars
       /\ Returns(k, "update_agent")
            => LET agent_id == ret[k].arg.agent_id
                   data == ret[k].arg.data
                   old == get_by_id(agents, agent_id)
                   new == get_by_id(agents', agent_id)
               IN /\ ~IsNone(old) /\ ~IsNone(new)
                  /\ ret'[k].result = Return(new[1])
                  /\ new[1].name = IF data.name.set THEN Get(data.name.value, "")
                                   ELSE old[1].name
                  /\ new[1].system_prompt = IF data.system_prompt.set
                                              THEN Get(data.system_prompt.value, "")
                                              ELSE old[1].system_prompt
                  /\ new[1].description = IF data.description.set THEN data.description.value
                                          ELSE old[1].description
                  /\ new[1].updated_at = old[1].updated_at
                  /\ OtherAgents(agents', agent_id) = OtherAgents(agents, agent_id)
                  /\ UNCHANGED <<conversations, messages, token_usage>>
    ]_vars

\* C21, amended: update_agent on an id without a row raises
\* AgentNotFoundError and changes nothing.  On an existing agent its flush
\* sets exactly the fields given with a value that is not null, a field
\* given as null or not given keeps its value, and updated_at becomes the
\* current time when a field changed and stays otherwise; when the call
\* returns, the agent is stored so and returned, and every other agent,
\* conversation, message and token usage record is unchanged.
C21_UpdateSetsNonNullFields ==
  [][\A k \in DOMAIN ret :
       /\ Begins(k, "update_agent")
            => IF IsNone(get_by_id(agents, ret'[k].arg.agent_id))
                 THEN /\ ret'[k].result = Raise(AgentNotFoundError)
                      /\ UNCHANGED <<dbvars, session>>
                 ELSE ret'[k].result.tag = "running" /\ UNCHANGED <<dbvars, session>>
       /\ Passes(k, "update_agent", "flush")
            => LET agent_id == ret[k].arg.agent_id
                   old == get_by_id(agents, agent_id)
                   new == get_by_id(session'.agents, agent_id)
               IN /\ ~IsNone(old) /\ ~IsNone(new)
                  /\ new[1].updated_at =
                       IF \E field \in AgentFields : new[1][field] # old[1][field]
                         THEN clock ELSE old[1].updated_at
                  /\ UNCHANGED dbvars
       /\ Returns(k, "update_agent")
            => LET agent_id == ret[k].arg.agent_id
                   data == ret[k].arg.data
                   old == get_by_id(agents, agent_id)
                   new == get_by_id(agents', agent_id)
                   Value(field) == IF data[field].set /\ ~IsNone(data[field].value)
                                     THEN data[field].value[1] ELSE old[1][field]
               IN /\ ~IsNone(old) /\ ~IsNone(new)
                  /\ ret'[k].result = Return(new[1])
                  /\ new[1].name = Value("name")
                  /\ new[1].system_prompt = Value("system_prompt")
                  /\ new[1].description =
                       IF data.description.set /\ ~IsNone(data.description.value)
                         THEN data.description.value ELSE old[1].description
                  /\ new = get_by_id(session.agents, agent_id)
                  /\ (\A field \in AgentFields : new[1][field] = old[1][field])
                       => new[1].updated_at = old[1].updated_at
                  /\ OtherAgents(agents', agent_id) = OtherAgents(agents, agent_id)
                  /\ UNCHANGED <<conversations, messages, token_usage>>
                  /\ session' = Committed'
    ]_vars

\* agent 1 was renamed at tick 1 and then updated with a null description:
\* it keeps its description, the other agent and all other rows are as
\* they were
C21_Witness ==
  /\ Called("update_agent") /\ ret[1].arg.agent_id = 1
  /\ ret[1].arg.data = AgentUpdate(Unset, Unset, Null)
  /\ \E a \in agents :
       /\ a.id = 1 /\ a.name = "Updated Name" /\ a.updated_at = 1
       /\ a.description = Some("A test agent for testing purposes")
       /\ ret[1].result = Return(a)
  /\ OtherAgents(agents, 1) = OtherAgents(TwoAgents, 1)
  /\ conversations = TwoConversations /\ messages = ConcHistory /\ token_usage = ConcUsage

\* ------------------------------------------------------------------------
\* app/repositories/conversation.py, app/services/conversation.py: create
\* ------------------------------------------------------------------------
\* the data argument: None, or a ConversationCreate with a title or without
ConversationCreate(title) == [title |-> title]
ConversationCreates ==
  {None, Some(ConversationCreate(None)), Some(ConversationCreate(Some("Test Conv")))}

\* ConversationRepository.create, lines 40-46: Conversation(agent_id,
\* title), add and flush: the row the INSERT stores.  The INSERT is run for
\* any agent_id, SQLite does not check the foreign key
conversation_create(convs, agent_id, data) ==
  [id |-> next_key(convs), agent_id |-> agent_id,
   title |-> IF ~IsNone(data) THEN data[1].title ELSE None]

\* the look-up of create_conversation that never raises
create_conversation_lookup_skipped(agts, agent_id) == None

\* ConversationService.create_conversation, lines 74-76: the agent is looked
\* up, AgentNotFoundError when it has no row
create_conversation_lookup(agts, agent_id) ==
  IF IsNone(get_by_id(agts, agent_id)) THEN Some(AgentNotFoundError) ELSE None

\* two agents with a conversation each, a message and a token usage record
\* in each conversation
ConvWorld ==
  /\ agents = TwoAgents
  /\ conversations = TwoConversations
  /\ messages = ConcHistory
  /\ token_usage = ConcUsage
  /\ session = Committed
  /\ pc = [r \in Req |-> "idle"]
  /\ req = [r \in Req |-> NoReq]
  /\ llm_ok = [c \in ConvIds |-> 0]
  /\ clock = 2
  /\ provider = RequestOutcomes
  /\ h_max_retries = DefaultMaxRetries
  /\ h_attempt = 0
  /\ h_result = [tag |-> "running"]
  /\ h_outcomes = <<>>

ConvInit == ConvWorld /\ ret = OneCaller

\* the number of create_conversation calls in flight that have yet to
\* insert their conversation
PlannedConversations ==
  Cardinality({k \in DOMAIN ret : At(k, "create_conversation", "flush")})

\* ConversationService.create_conversation up to its first await, the
\* look-up of the agent
create_conversation(k, agent_id, data) ==
  /\ ~InFlight(k)
  /\ LET exc == create_conversation_lookup(session.agents, agent_id)
     IN /\ IsNone(exc)
             => Cardinality(session.conversations) + PlannedConversations < MaxConversations
        /\ ret' = [ret EXCEPT ![k] =
                     Ret("create_conversation", [agent_id |-> agent_id, data |-> data],
                         None,
                         IF IsNone(exc) THEN Running("flush", [conversation |-> None])
                         ELSE Raise(exc[1]))]
  /\ UNCHANGED <<dbvars, session, pc, req, llm_ok, clock, provider, hvars>>

\* the next await of a create_conversation in flight: the flush of
\* ConversationRepository.create (line 46), which runs the INSERT; its
\* refresh (line 47); the commit of the service (line 79), after which it
\* returns the conversation; or the end of the session of a call that raised
create_conversation_step(k) ==
  /\ InFlight(k) /\ ret[k].op = "create_conversation"
  /\ LET stage == ret[k].result.stage
         loc == ret[k].result.loc
     IN CASE stage = "flush" ->
               LET conversation == conversation_create(session.conversations,
                                                       ret[k].arg.agent_id, ret[k].arg.data)
               IN /\ session' = [session EXCEPT !.conversations = @ \cup {conversation}]
                  /\ UNCHANGED dbvars
                  /\ ret' = [ret EXCEPT ![k].result =
                               Running("refresh", [conversation |-> Some(conversation)])]
          [] stage = "refresh" ->
               LET f == get_by_id(session.conversations, loc.conversation[1].id)
               IN /\ ret' = [ret EXCEPT ![k].result =
                               IF IsNone(f) THEN closing(Raise(InvalidRequestError))
                               ELSE Running("commit", [conversation |-> f])]
                  /\ UNCHANGED <<dbvars, session>>
          [] stage = "commit" ->
               /\ Commit(session)
               /\ ret' = [ret EXCEPT ![k].result = Return(loc.conversation[1])]
          [] stage = "close" ->
               /\ Rollback
               /\ ret' = [ret EXCEPT ![k].result = loc.outcome]
  /\ UNCHANGED <<pc, req, llm_ok, clock, provider, hvars>>

ConvNext ==
  \/ \E k \in DOMAIN ret, agent_id \in AgentIds, data \in ConversationCreates :
       create_conversation(k, agent_id, data)
  \/ \E k \in DOMAIN ret : create_conversation_step(k)
  \/ \E k \in DOMAIN ret, conversation_id \in ConversationIds :
       delete_conversation(k, conversation_id, FALSE)
  \/ \E k \in DOMAIN ret, agent_id \in AgentIds : delete_agent(k, agent_id, FALSE)
  \/ \E k \in DOMAIN ret : delete_step(k, FALSE)

ConvSpec == ConvInit /\ [][ConvNext]_vars

\* the same calls made by two callers at once
ConvConcInit == ConvWorld /\ ret = TwoCallers
ConvConcSpec == ConvConcInit /\ [][ConvNext]_vars

\* ------------------------------------------------------------------------
\* Send-message requests while agents and conversations are deleted
\* ------------------------------------------------------------------------
RaceInit ==
  /\ agents = TwoAgents
  /\ conversations = TwoConversations
  /\ messages = ConcHistory
  /\ token_usage = ConcUsage
  /\ session = Committed
  /\ pc = [r \in Req |-> "idle"]
  /\ req = [r \in Req |-> NoReq]
  /\ llm_ok = [c \in ConvIds |-> 0]
  /\ clock = 2
  /\ provider = ConcOutcomes
  /\ ret = OneCaller
  /\ h_max_retries = DefaultMaxRetries
  /\ h_attempt = 0
  /\ h_result = [tag |-> "running"]
  /\ h_outcomes = <<>>

\* the ids the deletes are called with
RaceTargets == {1}

\* the request-scoped session of a delete request ends (override_get_db of
\* tests/conftest.py): after a service that raised, rollback (line 109),
\* which rolls the transaction of the connection back; after a service that
\* returned, commit (line 107) of a session whose transaction the service
\* has committed already: no statement reaches the connection
get_db_end(k) ==
  /\ InFlight(k) /\ ret[k].result.stage = "exit"
  /\ IF ret[k].result.loc.outcome.tag = "raise"
       THEN Rollback
       ELSE UNCHANGED <<dbvars, session>>
  /\ ret' = [ret EXCEPT ![k].result = ret[k].result.loc.outcome]
  /\ UNCHANGED <<pc, req, llm_ok, clock, provider, hvars>>

\* send-message requests of one client and, at the same time, requests to
\* the endpoints delete_agent and delete_conversation of another
RaceNext ==
  \/ SerialNext
  \/ \E k \in DOMAIN ret, agent_id \in RaceTargets : delete_agent(k, agent_id, TRUE)
  \/ \E k \in DOMAIN ret, conversation_id \in RaceTargets :
       delete_conversation(k, conversation_id, TRUE)
  \/ \E k \in DOMAIN ret : delete_step(k, TRUE)
  \/ \E k \in DOMAIN ret : get_db_end(k)

RaceSpec == RaceInit /\ [][RaceNext]_vars


\* ------------------------------------------------------------------------
\* app/services/llm.py: format_messages_for_llm and parse_llm_response,
\* each applied once to an input
\* ------------------------------------------------------------------------
\* the entries of a history: dicts with or without the keys role and content
HistoryEntries ==
  [role : {Some("user"), Some("assistant"), None}, content : {Some("Hello"), None}]
RECURSIVE HistoriesOfLen(_)
HistoriesOfLen(n) ==
  IF n = 0 THEN {<<>>}
  ELSE {Append(h, e) : h \in HistoriesOfLen(n - 1), e \in HistoryEntries}
Histories == UNION {HistoriesOfLen(n) : n \in 0..MaxHistory}
SystemPrompts == {"", DefaultSystemPrompt}
\* the JSON objects that response.json() hands to parse_llm_response
ResponseData == {b \in Bodies : b.json}
Pending == [tag |-> "running"]

PureInit ==
  /\ agents = InitialAgents
  /\ conversations = InitialConversations
  /\ messages = <<>>
  /\ token_usage = <<>>
  /\ session = Committed
  /\ pc = [r \in Req |-> "idle"]
  /\ req = [r \in Req |-> NoReq]
  /\ llm_ok = [c \in ConvIds |-> 0]
  /\ clock = 0
  /\ provider = Outcomes
  /\ \/ \E history \in Histories, system_prompt \in SystemPrompts :
          ret = Some(Ret("format_messages_for_llm",
                         [messages |-> history, system_prompt |-> system_prompt],
                         None, Pending))
     \/ \E response_data \in ResponseData :
          ret = Some(Ret("parse_llm_response", response_data, None, Pending))
  /\ h_max_retries = DefaultMaxRetries
  /\ h_attempt = 0
  /\ h_result = [tag |-> "running"]
  /\ h_outcomes = <<>>

\* formatted_messages = format_messages_for_llm(messages, system_prompt)
call_format_messages_for_llm ==
  /\ Called("format_messages_for_llm") /\ ret[1].result = Pending
  /\ ret' = Some([ret[1] EXCEPT !.result =
                    Return(format_messages_for_llm(ret[1].arg.messages,
                                                   ret[1].arg.system_prompt))])
  /\ UNCHANGED <<dbvars, session, pc, req, llm_ok, clock, provider, hvars>>

\* return parse_llm_response(response_data)
call_parse_llm_response ==
  /\ Called("parse_llm_response") /\ ret[1].result = Pending
  /\ ret' = Some([ret[1] EXCEPT !.result = parse_llm_response(ret[1].arg)])
  /\ UNCHANGED <<dbvars, session, pc, req, llm_ok, clock, provider, hvars>>

PureNext == call_format_messages_for_llm \/ call_parse_llm_response

PureSpec == PureInit /\ [][PureNext]_vars

\* ------------------------------------------------------------------------
\* Properties of the context, of the prompt and of the provider's answers
\* ------------------------------------------------------------------------
\* C22: when a send-message request that runs alone has reached its LLM
\* call, the context it passes is the list of the role and content of every
\* message of the conversation that its session sees, in the order in which
\* they were created, and the user message it has just stored is the last
\* element.
C22_ContextIsFullHistory ==
  \A r \in DOMAIN pc :
    (pc[r] = "llm" /\ Alone(r))
      => LET own == where_conversation(Visible, req[r].conversation_id)
         IN /\ req[r].context = build_message_context(own)
            /\ req[r].context[Len(req[r].context)] =
                 [role |-> "user", content |-> req[r].content]

\* a request on conversation 1 is at its LLM call; its user message was
\* stored within the tick of the last message of the fixture, and the
\* context holds the three messages of the fixture and then the user message
C22_Witness ==
  \E r \in DOMAIN pc :
    /\ pc[r] = "llm" /\ Alone(r) /\ req[r].conversation_id = 1
    /\ req[r].user_message # None /\ req[r].user_message[1].created_at = 3
    /\ Len(req[r].context) = 4
    /\ req[r].context[3] = [role |-> "user", content |-> "Can you help me with Python?"]
    /\ req[r].context[4] = [role |-> "user", content |-> req[r].content]

\* C23: the step of send_message that looks the agent up never fails while
\* the caller stays: it goes on to store the user message, and the system
\* prompt is "You are a helpful assistant." when the agent of the
\* conversation has no row and the system_prompt of the agent's row
\* otherwise; the prompt stays the same up to the LLM call and while the call
\* is in flight, and it is the prompt of a request that has stored its user
\* message and reached the call.
C23_PromptOfAgentOrDefault ==
  [][\A r \in DOMAIN pc :
       /\ (pc[r] = "agent" /\ pc'[r] # "agent" /\ req'[r].exc # Some(CancelledError))
            => LET agent == get_by_id(session.agents, req[r].conversation[1].agent_id)
               IN /\ pc'[r] = "create"
                  /\ req'[r].exc = None
                  /\ req'[r].system_prompt =
                       IF IsNone(agent) THEN "You are a helpful assistant."
                       ELSE agent[1].system_prompt
       /\ (pc[r] \in {"create", "refresh", "history", "llm"} /\ req'[r].exc = None)
            => req'[r].system_prompt = req[r].system_prompt
       /\ pc'[r] = "llm" => req'[r].user_message # None
    ]_vars

\* a request on conversation 1 is at its LLM call with the default prompt:
\* agent 1, whose prompt is another one, was deleted after the conversation
\* had been found
C23_Witness ==
  \E r \in DOMAIN pc :
    /\ pc[r] = "llm" /\ req[r].conversation_id = 1
    /\ req[r].system_prompt = "You are a helpful assistant."
    /\ req[r].user_message # None
    /\ get_by_id(agents, 1) = None

\* C24: when chat has ended on a response of the provider, it has raised
\* the API error that carries the status of that response exactly when the
\* status is outside 200..299.
C24_APIErrorIffNot2xx ==
  (Finished /\ N >= 1 /\ h_outcomes[N].kind = "response")
    => (h_result = Raise(LLMAPIError(Some(h_outcomes[N].status)))
          <=> h_outcomes[N].status \notin 200..299)

\* C25: format_messages_for_llm(messages, system_prompt) returns one entry
\* for each entry of messages, in the same order, with the role and content
\* of that entry ("user" and "" where the entry lacks the key), preceded by
\* the single entry [system, system_prompt] when system_prompt is not empty
\* and by nothing when it is empty; the call leaves its arguments as they
\* were.
C25_FormatKeepsOrderAndAddsSystem ==
  [][(Called("format_messages_for_llm") /\ ret[1].result = Pending /\ ret' # ret)
       => LET history == ret[1].arg.messages
              system_prompt == ret[1].arg.system_prompt
              k == IF system_prompt # "" THEN 1 ELSE 0
              result == ret'[1].result.value
          IN /\ ret'[1].result.tag = "return"
             /\ ret'[1].arg = ret[1].arg
             /\ Len(result) = Len(history) + k
             /\ k = 1 => result[1] = [role |-> "system", content |-> system_prompt]
             /\ \A i \in DOMAIN history :
                  /\ result[i + k].role = Get(history[i].role, "user")
                  /\ result[i + k].content = Get(history[i].content, "")
             /\ Cardinality({i \in DOMAIN result : result[i].role = "system"}) = k
    ]_vars

\* a history of two entries was formatted with an empty system prompt: the
\* result is the two entries, with no system entry
C25_Witness ==
  /\ Called("format_messages_for_llm") /\ ret[1].result # Pending
  /\ ret[1].arg.system_prompt = ""
  /\ ret[1].arg.messages = <<[role |-> Some("user"), content |-> Some("Hello")],
                             [role |-> Some("assistant"), content |-> Some("Hello")]>>
  /\ ret[1].result = Return(<<[role |-> "user", content |-> "Hello"],
                              [role |-> "assistant", content |-> "Hello"]>>)

\* C26: parse_llm_response returns the pair of choices[0].message.content
\* and the usage, each count 0 when missing, when choices is not empty and
\* the content is there and not null, and raises LLMAPIError in every other
\* case.
C26_ParseReturnsOrAPIError ==
  (Called("parse_llm_response") /\ ret[1].result # Pending)
    => LET response_data == ret[1].arg
       IN IF /\ response_data.choices # <<>>
             /\ response_data.choices[1].content # None
            THEN ret[1].result =
                   Return(<<response_data.choices[1].content[1],
                            [prompt_tokens |-> Get(response_data.usage.prompt_tokens, 0),
                             completion_tokens |-> Get(response_data.usage.completion_tokens, 0),
                             total_tokens |-> Get(response_data.usage.total_tokens, 0)]>>)
            ELSE /\ ret[1].result.tag = "raise"
                 /\ ret[1].result.exc.type = "LLMAPIError"

\* C27: in every step each stored message either is still stored with the
\* same id, conversation, role, content and creation time, or has left the
\* store in the step in which a delete_conversation or delete_agent call
\* returned True and removed its conversation; no stored row with the id of
\* a message differs from it.
C27_MessagesImmutable ==
  [][\A i \in DOMAIN messages :
       /\ \/ \E j \in DOMAIN messages' : messages'[j] = messages[i]
          \/ /\ get_by_id(conversations, messages[i].conversation_id) # None
             /\ get_by_id(conversations', messages[i].conversation_id) = None
             /\ \E k \in DOMAIN ret :
                  /\ Returns(k, "delete_conversation") \/ Returns(k, "delete_agent")
                  /\ ret'[k].deleted = Some(TRUE)
       /\ \A j \in DOMAIN messages' :
            messages'[j].id = messages[i].id => messages'[j] = messages[i]
    ]_vars

\* a message of conversation 2 created at tick 0 is still stored as it was
\* after the clock moved on, another message was created and conversation 1
\* was deleted with its message
C27_Witness ==
  /\ Called("delete_conversation") /\ ret[1].arg = 1 /\ ret[1].deleted = Some(TRUE)
  /\ ret[1].result = Return(TRUE)
  /\ clock = 1
  /\ messages = <<[id |-> 1, conversation_id |-> 2, role |-> "user",
                   content |-> "Hello", created_at |-> 0]>>
  /\ get_by_id(conversations, 1) = None

C29_NoOrphans ==
  /\ \A i \in DOMAIN messages :
       \E c \in conversations : c.id = messages[i].conversation_id
  /\ \A i \in DOMAIN token_usage :
       \E c \in conversations : c.id = token_usage[i].conversation_id
  /\ \A c \in conversations : \E a \in agents : a.id = c.agent_id

\* C30: create_conversation for an agent id without a row raises
\* AgentNotFoundError and leaves every stored row as it was; for an agent
\* that has a row it goes on, and when it returns it has added exactly one
\* conversation, with a key no stored conversation has, owned by that agent,
\* with the title given or none, and with no message and no token usage,
\* and returns it; every other row is unchanged, and no stored row changes
\* before the call returns.
C30_CreateConversation ==
  [][\A k \in DOMAIN ret :
       /\ Begins(k, "create_conversation")
            => /\ UNCHANGED <<dbvars, session>>
               /\ IF get_by_id(agents, ret'[k].arg.agent_id) = None
                    THEN ret'[k].result = Raise(AgentNotFoundError)
                    ELSE ret'[k].result.tag = "running"
       /\ (InFlight(k) /\ ret[k].op = "create_conversation"
             /\ ~Returns(k, "create_conversation"))
            => UNCHANGED dbvars
       /\ Returns(k, "create_conversation")
            => LET agent_id == ret[k].arg.agent_id
                   data == ret[k].arg.data
                   c == ret'[k].result.value
               IN /\ get_by_id(agents, agent_id) # None
                  /\ get_by_id(conversations, c.id) = None
                  /\ conversations' = conversations \cup {c}
                  /\ Cardinality(conversations') = Cardinality(conversations) + 1
                  /\ c.agent_id = agent_id
                  /\ c.title = IF data = None THEN None ELSE data[1].title
                  /\ OfConversations(messages', {c.id}) = {}
                  /\ OfConversations(token_usage', {c.id}) = {}
                  /\ UNCHANGED <<agents, messages, token_usage>>
                  /\ session' = Committed'
    ]_vars

\* conversation 2 was deleted with its message, and a conversation created
\* afterwards for agent 1 with the title "Test Conv" got the key 2 and has
\* no message
C30_Witness ==
  /\ Called("create_conversation") /\ ret[1].arg.agent_id = 1
  /\ ret[1].result = Return([id |-> 2, agent_id |-> 1, title |-> Some("Test Conv")])
  /\ conversations = InitialConversations \cup {ret[1].result.value}
  /\ OfConversations(messages, {2}) = {} /\ Len(messages) = 1
  /\ agents = TwoAgents

====
